---- MODULE Spec2Model ----
(***************************************************************************)
(* Model of mlrun/artifacts/base.py: the artifact records (metadata, spec, *)
(* status), the current and the legacy artifact, their construction,       *)
(* upload, addressing and dict projection.                                 *)
(***************************************************************************)
EXTENDS Integers, Sequences, FiniteSets, TLC

VARIABLES
    art,              \* the current-schema Artifact (metadata/spec/status)
    leg,              \* the LegacyArtifact (one flat record)
    calc_hash,        \* module-level hashing flag
    default_project,  \* mlrun.mlconf.default_project
    calls,            \* store calls made on behalf of art, in order
    lcalls,           \* store calls made on behalf of leg, in order
    op,               \* the operation that produced this state
    args,             \* the arguments of that operation
    pre,              \* art, leg and the call logs before that operation
    err,              \* the error that operation raised, or "none"
    result,           \* the value that operation returned
    uploaded,         \* some upload() of art has returned without raising
    supplied,         \* the hash and size the caller constructed art with
    environ,          \* os.environ: the variables that are set, each with its value
    config,           \* mlrun.config.config.storage: the auto-mount settings
    store,            \* what the object store holds: artifacts by store URI, documents by path
    listings,         \* the paths the last operation passed to os.listdir
    notices           \* the warnings the last operation emitted through warnings.warn

vars == <<art, leg, calc_hash, default_project, calls, lcalls, op, args, pre, err, result, uploaded, supplied, environ, config, store, listings, notices>>

-----------------------------------------------------------------------------
(* Python values.  Every value is a tagged tuple, so that values of        *)
(* different Python types can sit in the same field and be compared.       *)

None == <<"None">>
S(s) == <<"str", s>>
I(n) == <<"int", n>>
Bytes(b) == <<"bytes", b>>
Text(t) == <<"text", t>>
Dict(d) == <<"dict", d>>
List(l) == <<"list", l>>
EmptyDict == Dict(<<>>)

\* Python truthiness: None, "", 0, b"", {} and [] are false.
Truthy(v) ==
    CASE v[1] = "None" -> FALSE
      [] v[1] = "str" -> v[2] # ""
      [] v[1] = "int" -> v[2] # 0
      [] v[1] \in {"bytes", "text", "list"} -> Len(v[2]) > 0
      [] v[1] = "dict" -> DOMAIN v[2] # {}
      [] OTHER -> TRUE

\* Python's  a or b.
Or(a, b) == IF Truthy(a) THEN a ELSE b

\* len() of a bytes or text value: bytes for bytes, characters for text.
PyLen(v) == Len(v[2])

-----------------------------------------------------------------------------
(* Bounds of the model.                                                    *)

MaxBodyLen == 2
MaxCalls == 2

\* Code points a text body is drawn from: 'a' and U+00E9.
TextAlphabet == {97, 233}
\* Byte values a bytes body is drawn from.
ByteAlphabet == {97, 255}

RECURSIVE SeqsUpTo(_, _)
SeqsUpTo(A, n) ==
    IF n = 0 THEN {<<>>}
    ELSE LET shorter == SeqsUpTo(A, n - 1)
         IN  shorter \cup {Append(s, a) : s \in {x \in shorter : Len(x) = n - 1}, a \in A}

Bodies ==
    {None} \cup {Bytes(b) : b \in SeqsUpTo(ByteAlphabet, MaxBodyLen)}
           \cup {Text(t) : t \in SeqsUpTo(TextAlphabet, MaxBodyLen)}

-----------------------------------------------------------------------------
(* The local file system os.path.isfile / os.stat / open() read.           *)

RegularFiles == [p \in {"/data/model.bin", "/data/empty.bin", "/data/sub/part.csv", "local.txt"} |->
                    CASE p = "/data/model.bin" -> <<1, 2, 3>>
                      [] p = "/data/sub/part.csv" -> <<9>>
                      [] p = "local.txt" -> <<7, 7>>
                      [] OTHER -> <<>>]
Directories == {"/data", "/data/sub"}
\* The names each directory holds.
DirectoryEntries == [d \in Directories |->
                        IF d = "/data" THEN {"model.bin", "empty.bin", "sub"} ELSE {"part.csv"}]
SrcPaths == {None, S(""), S("/data/model.bin"), S("/data/empty.bin"), S("/data"), S("/data/missing")}

isfile(path) == path[1] = "str" /\ path[2] \in DOMAIN RegularFiles
FileBytes(path) == RegularFiles[path[2]]
st_size(path) == Len(FileBytes(path))

\* The orders in which a set of names may be listed.
Orderings(names) ==
    {o \in [1..Cardinality(names) -> names] : \A i, j \in 1..Cardinality(names) : i # j => o[i] # o[j]}

\* os.listdir: the names of a directory, in arbitrary order.
listdir(path) == IF path[2] \in Directories THEN Orderings(DirectoryEntries[path[2]]) ELSE {}

\* The names of this model that begin with "/", end with "/", or hold "://".
AbsoluteNames ==
    {"/data", "/data/sub", "/data/model.bin", "/data/empty.bin", "/data/sub/part.csv", "/data/missing", "/etc/motd"}
TrailingSepNames == {"s3://bucket/dir/"}
SchemeNames == {"store://out/model", "s3://bucket/model", "s3://bucket/dir/", "s3://bucket/extra.txt"}

startswith_sep(name) == name \in AbsoluteNames
endswith_sep(name) == name \in TrailingSepNames
has_scheme(name) == name \in SchemeNames

\* os.path.join of two path strings
os_path_join(a, b) ==
    IF startswith_sep(b[2]) THEN b
    ELSE IF a[2] = "" \/ endswith_sep(a[2]) THEN S(a[2] \o b[2])
    ELSE S(a[2] \o "/" \o b[2])

-----------------------------------------------------------------------------
(* Hashing.                                                                *)

\* str.encode(): UTF-8, one code point at a time.
EncodeChar(c) ==
    IF c < 128 THEN <<c>>
    ELSE IF c < 2048 THEN <<192 + (c \div 64), 128 + (c % 64)>>
    ELSE <<224 + (c \div 4096), 128 + ((c \div 64) % 64), 128 + (c % 64)>>

RECURSIVE encode(_)
encode(t) == IF t = <<>> THEN <<>> ELSE EncodeChar(Head(t)) \o encode(Tail(t))

\* hashlib.sha1(data).hexdigest(): a digest that identifies the bytes hashed.
sha1_hexdigest(bytes) == <<"sha1", bytes>>

blob_hash(data) ==
    LET bytes == IF data[1] = "text" THEN encode(data[2]) ELSE data[2]
    IN  sha1_hexdigest(bytes)

calculate_local_file_hash(src) == sha1_hexdigest(FileBytes(src))

\* The byte representation of a body, as the store receives it.
BodyBytes(body) == IF body[1] = "text" THEN encode(body[2]) ELSE body[2]

-----------------------------------------------------------------------------
(* The records of the current schema.                                      *)

ArtifactMetadata(key, project, iter, tree, description, hash, tag) ==
    [key |-> key, project |-> project, iter |-> iter, tree |-> tree,
     description |-> description, hash |-> hash, labels |-> EmptyDict,
     updated |-> None, tag |-> tag]

ArtifactSpec(src_path, target_path, viewer, is_inline, format, size, db_key, extra_data, body) ==
    [src_path |-> src_path, target_path |-> target_path, viewer |-> viewer,
     _is_inline |-> is_inline, format |-> format, size |-> size, db_key |-> db_key,
     extra_data |-> Or(extra_data, EmptyDict), _body |-> body, encoding |-> None,
     annotations |-> None, sources |-> List(<<>>), producer |-> None,
     license |-> S("")]

ArtifactStatus == [state |-> S("created")]

\* ArtifactSpec.get_body
ArtifactSpec_get_body(spec) == spec._body

\* ArtifactSpec.inline, read
ArtifactSpec_inline(spec) == IF spec._is_inline THEN ArtifactSpec_get_body(spec) ELSE None

\* ArtifactSpec.inline, written
ArtifactSpec_set_inline(spec, body) == [spec EXCEPT !._body = body]

\* ModelObj._verify_dict on an optional typed record: an absent one ({}) is
\* default-constructed, a supplied one ({m}) is kept.
_verify_dict(param, new_type) == IF param = {} THEN new_type ELSE CHOOSE m \in param : TRUE

\* Artifact.__init__ storing every body that is not None, an empty one included.
Artifact_StoreAnyBody(key, body, viewer, is_inline, format, size, target_path, project, metadata, spec) ==
    LET m0 == _verify_dict(metadata, ArtifactMetadata(None, None, None, None, None, None, None))
        s0 == _verify_dict(spec, ArtifactSpec(None, None, None, FALSE, None, None, None, None, None))
        m1 == [m0 EXCEPT !.key = Or(key, m0.key),
                         !.project = Or(project, Or(default_project, m0.project))]
        s1 == [s0 EXCEPT !.size = Or(size, s0.size),
                         !.target_path = Or(target_path, s0.target_path),
                         !.format = Or(format, s0.format),
                         !.viewer = Or(viewer, s0.viewer)]
        s2 == IF body # None THEN ArtifactSpec_set_inline(s1, body) ELSE s1
        s3 == [s2 EXCEPT !._is_inline = (is_inline \/ s2._is_inline)]
    IN  [kind |-> S("artifact"), metadata |-> m1, spec |-> s3, status |-> ArtifactStatus]

\* Artifact.__init__ with the is_inline argument overwriting the flag of the
\* supplied spec instead of being or-ed with it.
Artifact_InlineArgOnly(key, body, viewer, is_inline, format, size, target_path, project, metadata, spec) ==
    LET m0 == _verify_dict(metadata, ArtifactMetadata(None, None, None, None, None, None, None))
        s0 == _verify_dict(spec, ArtifactSpec(None, None, None, FALSE, None, None, None, None, None))
        m1 == [m0 EXCEPT !.key = Or(key, m0.key),
                         !.project = Or(project, Or(default_project, m0.project))]
        s1 == [s0 EXCEPT !.size = Or(size, s0.size),
                         !.target_path = Or(target_path, s0.target_path),
                         !.format = Or(format, s0.format),
                         !.viewer = Or(viewer, s0.viewer)]
        s2 == IF Truthy(body) THEN ArtifactSpec_set_inline(s1, body) ELSE s1
        s3 == [s2 EXCEPT !._is_inline = is_inline]
    IN  [kind |-> S("artifact"), metadata |-> m1, spec |-> s3, status |-> ArtifactStatus]

\* Artifact.__init__
Artifact(key, body, viewer, is_inline, format, size, target_path, project, metadata, spec) ==
    LET m0 == _verify_dict(metadata, ArtifactMetadata(None, None, None, None, None, None, None))
        s0 == _verify_dict(spec, ArtifactSpec(None, None, None, FALSE, None, None, None, None, None))
        m1 == [m0 EXCEPT !.key = Or(key, m0.key),
                         !.project = Or(project, Or(default_project, m0.project))]
        s1 == [s0 EXCEPT !.size = Or(size, s0.size),
                         !.target_path = Or(target_path, s0.target_path),
                         !.format = Or(format, s0.format),
                         !.viewer = Or(viewer, s0.viewer)]
        s2 == IF Truthy(body) THEN ArtifactSpec_set_inline(s1, body) ELSE s1
        s3 == [s2 EXCEPT !._is_inline = (is_inline \/ s2._is_inline)]
    IN  [kind |-> S("artifact"), metadata |-> m1, spec |-> s3, status |-> ArtifactStatus]

\* Artifact.get_body
Artifact_get_body(self) == ArtifactSpec_get_body(self.spec)

\* A call on the object store_manager.object(url=...) returns.
StoreCall(method, url, data) == [method |-> method, url |-> url, data |-> data]

\* Artifact._upload_body with the calc_hash test dropped: it always hashes.
Artifact__upload_body_AlwaysHash(self, body, target) ==
    [self |-> [self EXCEPT !.metadata.hash = blob_hash(body), !.spec.size = I(PyLen(body))],
     calls |-> <<StoreCall("put", Or(target, self.spec.target_path), body)>>]

\* Artifact._upload_body; the store call is its last statement.
Artifact__upload_body(self, body, target) ==
    LET h == IF calc_hash THEN blob_hash(body) ELSE self.metadata.hash
    IN  [self |-> [self EXCEPT !.metadata.hash = h, !.spec.size = I(PyLen(body))],
         calls |-> <<StoreCall("put", Or(target, self.spec.target_path), body)>>]

\* Artifact._upload_file; the store call is its last statement.
Artifact__upload_file(self, src, target) ==
    LET h == IF calc_hash THEN calculate_local_file_hash(src) ELSE self.metadata.hash
    IN  [self |-> [self EXCEPT !.metadata.hash = h, !.spec.size = I(st_size(src))],
         calls |-> <<StoreCall("upload", Or(target, self.spec.target_path), src)>>]

\* Artifact.upload with the two branches swapped: the source file is tried first.
Artifact_upload_FileFirst(self) ==
    LET src_path == self.spec.src_path
        body == Artifact_get_body(self)
    IN  IF Truthy(src_path) /\ isfile(src_path) THEN Artifact__upload_file(self, src_path, None)
        ELSE IF Truthy(body) THEN Artifact__upload_body(self, body, None)
        ELSE [self |-> self, calls |-> <<>>]

\* Artifact.upload with the os.path.isfile test dropped: any src_path is handed on.
Artifact_upload_NoIsfile(self) ==
    LET src_path == self.spec.src_path
        body == Artifact_get_body(self)
    IN  IF Truthy(body) THEN Artifact__upload_body(self, body, None)
        ELSE IF Truthy(src_path) THEN
            IF isfile(src_path) THEN Artifact__upload_file(self, src_path, None)
            ELSE [self |-> self, calls |-> <<StoreCall("upload", self.spec.target_path, src_path)>>]
        ELSE [self |-> self, calls |-> <<>>]

\* Artifact.upload
Artifact_upload(self) ==
    LET src_path == self.spec.src_path
        body == Artifact_get_body(self)
    IN  IF Truthy(body) THEN Artifact__upload_body(self, body, None)
        ELSE IF Truthy(src_path) /\ isfile(src_path) THEN Artifact__upload_file(self, src_path, None)
        ELSE [self |-> self, calls |-> <<>>]

-----------------------------------------------------------------------------
(* The flattened accessors kept for code written against LegacyArtifact:   *)
(* one property per name, each with a getter and a setter.                 *)

LegacyAccessors ==
    {"key", "tag", "src_path", "target_path", "producer", "format", "viewer", "size", "db_key", "sources", "extra_data", "labels", "iter", "tree", "project", "hash"}

\* warnings.warn(..., PendingDeprecationWarning), as each accessor calls it once.
DeprecationNotice(name) == [category |-> "PendingDeprecationWarning", property |-> name]

\* The value each property getter returns.
Artifact_getter_value(self, name) ==
    CASE name = "key" -> self.metadata.key
      [] name = "tag" -> self.metadata.tag
      [] name = "src_path" -> self.spec.src_path
      [] name = "target_path" -> self.spec.target_path
      [] name = "producer" -> self.spec.producer
      [] name = "format" -> self.spec.format
      [] name = "viewer" -> self.spec.viewer
      [] name = "size" -> self.spec.size
      [] name = "db_key" -> self.spec.db_key
      [] name = "sources" -> self.spec.sources
      [] name = "extra_data" -> self.spec.extra_data
      [] name = "labels" -> self.metadata.labels
      [] name = "iter" -> self.metadata.iter
      [] name = "tree" -> self.metadata.tree
      [] name = "project" -> self.metadata.project
      [] name = "hash" -> self.metadata.hash

\* The property setters with key's writing spec.db_key.
Artifact_setter_effect_KeyToDbKey(self, name, value) ==
    CASE name = "key" -> [self EXCEPT !.spec.db_key = value]
      [] name = "tag" -> [self EXCEPT !.metadata.tag = value]
      [] name = "src_path" -> [self EXCEPT !.spec.src_path = value]
      [] name = "target_path" -> [self EXCEPT !.spec.target_path = value]
      [] name = "producer" -> [self EXCEPT !.spec.producer = value]
      [] name = "format" -> [self EXCEPT !.spec.format = value]
      [] name = "viewer" -> [self EXCEPT !.spec.viewer = value]
      [] name = "size" -> [self EXCEPT !.spec.size = value]
      [] name = "db_key" -> [self EXCEPT !.spec.db_key = value]
      [] name = "sources" -> [self EXCEPT !.spec.sources = value]
      [] name = "extra_data" -> [self EXCEPT !.spec.extra_data = value]
      [] name = "labels" -> [self EXCEPT !.metadata.labels = value]
      [] name = "iter" -> [self EXCEPT !.metadata.iter = value]
      [] name = "tree" -> [self EXCEPT !.metadata.tree = value]
      [] name = "project" -> [self EXCEPT !.metadata.project = value]
      [] name = "hash" -> [self EXCEPT !.metadata.hash = value]

\* The artifact each property setter leaves.
Artifact_setter_effect(self, name, value) ==
    CASE name = "key" -> [self EXCEPT !.metadata.key = value]
      [] name = "tag" -> [self EXCEPT !.metadata.tag = value]
      [] name = "src_path" -> [self EXCEPT !.spec.src_path = value]
      [] name = "target_path" -> [self EXCEPT !.spec.target_path = value]
      [] name = "producer" -> [self EXCEPT !.spec.producer = value]
      [] name = "format" -> [self EXCEPT !.spec.format = value]
      [] name = "viewer" -> [self EXCEPT !.spec.viewer = value]
      [] name = "size" -> [self EXCEPT !.spec.size = value]
      [] name = "db_key" -> [self EXCEPT !.spec.db_key = value]
      [] name = "sources" -> [self EXCEPT !.spec.sources = value]
      [] name = "extra_data" -> [self EXCEPT !.spec.extra_data = value]
      [] name = "labels" -> [self EXCEPT !.metadata.labels = value]
      [] name = "iter" -> [self EXCEPT !.metadata.iter = value]
      [] name = "tree" -> [self EXCEPT !.metadata.tree = value]
      [] name = "project" -> [self EXCEPT !.metadata.project = value]
      [] name = "hash" -> [self EXCEPT !.metadata.hash = value]

\* artifact.<name>, read: warn once, return the field.
Artifact_get_property(self, name) ==
    [notices |-> <<DeprecationNotice(name)>>, value |-> Artifact_getter_value(self, name)]

\* artifact.<name> = value: warn once, assign the field.
Artifact_set_property(self, name, value) ==
    [notices |-> <<DeprecationNotice(name)>>, self |-> Artifact_setter_effect(self, name, value)]

-----------------------------------------------------------------------------
(* Addressing.  A URI is the sequence of the text pieces it is formatted   *)
(* from; a name formatted into it is one piece.                            *)

\* How an f-string renders a value.
Format(v) ==
    CASE v[1] = "None" -> "None"
      [] v[1] = "int" -> ToString(v[2])
      [] OTHER -> v[2]

\* utils.generate_artifact_uri: project and key, then the iteration and the
\* tag, each only when present.
generate_artifact_uri(project, key, tag, iter) ==
    <<Format(project), "/", Format(key)>>
        \o (IF iter # None THEN <<"#", Format(iter)>> ELSE <<>>)
        \o (IF tag # None THEN <<":", Format(tag)>> ELSE <<>>)

\* utils.StorePrefix.Artifact
StorePrefix_Artifact == "artifacts"

\* datastore.get_store_uri
get_store_uri(kind, uri) == <<"store://", kind, "/">> \o uri

\* Artifact.get_store_url with the iteration left out of the generated path.
Artifact_get_store_url_NoIter(self, with_tag, project) ==
    LET tag == IF with_tag THEN self.metadata.tree ELSE None
        uri == generate_artifact_uri(Or(project, self.metadata.project), self.spec.db_key, tag, None)
    IN  get_store_uri(StorePrefix_Artifact, uri)

\* Artifact.get_store_url with the tag formatted in whatever with_tag says.
Artifact_get_store_url_AlwaysTag(self, with_tag, project) ==
    LET uri == generate_artifact_uri(Or(project, self.metadata.project), self.spec.db_key,
                                     self.metadata.tree, self.metadata.iter)
    IN  get_store_uri(StorePrefix_Artifact, uri)

\* Artifact.get_store_url
Artifact_get_store_url(self, with_tag, project) ==
    LET tag == IF with_tag THEN self.metadata.tree ELSE None
        uri == generate_artifact_uri(Or(project, self.metadata.project), self.spec.db_key, tag,
                                     self.metadata.iter)
    IN  get_store_uri(StorePrefix_Artifact, uri)

-----------------------------------------------------------------------------
(* The legacy schema: one flat record.                                     *)

\* LegacyArtifact.__init__
LegacyArtifact(key, body, viewer, is_inline, format, size, target_path) ==
    [kind |-> S(""), key |-> key, project |-> S(""), db_key |-> None, size |-> size,
     iter |-> None, tree |-> None, updated |-> None, target_path |-> target_path,
     src_path |-> None, _body |-> body, format |-> format, description |-> None,
     viewer |-> viewer, encoding |-> None, labels |-> EmptyDict, annotations |-> None,
     sources |-> List(<<>>), producer |-> None, hash |-> None, _inline |-> is_inline,
     license |-> S(""), extra_data |-> EmptyDict, tag |-> None]

\* LegacyArtifact.get_body
LegacyArtifact_get_body(self) == self._body

\* LegacyArtifact.inline, read
LegacyArtifact_inline(self) == IF self._inline THEN LegacyArtifact_get_body(self) ELSE None

\* LegacyArtifact._upload_body
LegacyArtifact__upload_body(self, body, target) ==
    LET h == IF calc_hash THEN blob_hash(body) ELSE self.hash
    IN  [self |-> [self EXCEPT !.hash = h, !.size = I(PyLen(body))],
         calls |-> <<StoreCall("put", Or(target, self.target_path), body)>>]

\* LegacyArtifact._upload_file
LegacyArtifact__upload_file(self, src, target) ==
    LET h == IF calc_hash THEN calculate_local_file_hash(src) ELSE self.hash
    IN  [self |-> [self EXCEPT !.hash = h, !.size = I(st_size(src))],
         calls |-> <<StoreCall("upload", Or(target, self.target_path), src)>>]

\* LegacyArtifact.upload with the two branches swapped: the source file is tried first.
LegacyArtifact_upload_FileFirst(self) ==
    LET src_path == self.src_path
        body == LegacyArtifact_get_body(self)
    IN  IF Truthy(src_path) /\ isfile(src_path) THEN LegacyArtifact__upload_file(self, src_path, None)
        ELSE IF Truthy(body) THEN LegacyArtifact__upload_body(self, body, None)
        ELSE [self |-> self, calls |-> <<>>]

\* LegacyArtifact.upload
LegacyArtifact_upload(self) ==
    LET src_path == self.src_path
        body == LegacyArtifact_get_body(self)
    IN  IF Truthy(body) THEN LegacyArtifact__upload_body(self, body, None)
        ELSE IF Truthy(src_path) /\ isfile(src_path) THEN LegacyArtifact__upload_file(self, src_path, None)
        ELSE [self |-> self, calls |-> <<>>]

\* LegacyArtifact.get_store_url
LegacyArtifact_get_store_url(self, with_tag, project) ==
    LET tag == IF with_tag THEN self.tree ELSE None
        uri == generate_artifact_uri(Or(project, self.project), self.db_key, tag, self.iter)
    IN  get_store_uri(StorePrefix_Artifact, uri)

-----------------------------------------------------------------------------
(* Field projection: to_dict and from_dict.  A dict is a function from     *)
(* field names to values; Python compares dicts without regard to order.   *)

\* ModelObj.to_dict keeps a field unless its value is None or an empty dict.
Kept(v) == v # None /\ v # EmptyDict

\* ModelObj.to_dict, given the value getattr finds for each listed field.
ModelObj_to_dict(view) == Dict([f \in {g \in DOMAIN view : Kept(view[g])} |-> view[f]])

\* ModelObj.from_dict on plain attributes: every key of struct that is a
\* listed field is assigned on the fresh object, the others are ignored.
ModelObj_from_dict(new_obj, struct, fields) ==
    [f \in DOMAIN new_obj |->
        IF f \in fields /\ f \in DOMAIN struct[2] THEN struct[2][f] ELSE new_obj[f]]

ArtifactMetadata_fields ==
    {"key", "project", "iter", "tree", "description", "hash", "tag"} \cup {"updated", "labels"}

ArtifactSpec_fields ==
    {"src_path", "target_path", "viewer", "inline", "format", "size", "db_key", "extra_data"}
        \cup {"annotations", "producer", "sources", "license", "encoding"}

ArtifactStatus_fields == {"state"}

Artifact_fields == {"kind", "metadata", "spec", "status"}

LegacyArtifact_fields ==
    {"key", "kind", "iter", "tree", "src_path", "target_path", "hash", "description", "viewer",
     "inline", "format", "size", "db_key", "extra_data", "tag"}
        \cup {"updated", "labels", "annotations", "producer", "sources", "project"}

\* ArtifactMetadata.to_dict
ArtifactMetadata_to_dict(m) == ModelObj_to_dict([f \in ArtifactMetadata_fields |-> m[f]])

\* ArtifactMetadata.from_dict
ArtifactMetadata_from_dict(struct) ==
    ModelObj_from_dict(ArtifactMetadata(None, None, None, None, None, None, None), struct,
                       ArtifactMetadata_fields)

\* ArtifactSpec.to_dict; "inline" is read through the property.
ArtifactSpec_to_dict(spec) ==
    ModelObj_to_dict([f \in ArtifactSpec_fields |->
                         IF f = "inline" THEN ArtifactSpec_inline(spec) ELSE spec[f]])

\* ArtifactSpec.from_dict; "inline" is written through the property setter.
ArtifactSpec_from_dict(struct) ==
    LET plain == ModelObj_from_dict(ArtifactSpec(None, None, None, FALSE, None, None, None, None, None),
                                    struct, ArtifactSpec_fields \ {"inline"})
    IN  IF "inline" \in DOMAIN struct[2] THEN ArtifactSpec_set_inline(plain, struct[2].inline)
        ELSE plain

\* ArtifactStatus.to_dict and from_dict
ArtifactStatus_to_dict(status) == ModelObj_to_dict([f \in ArtifactStatus_fields |-> status[f]])
ArtifactStatus_from_dict(struct) == ModelObj_from_dict(ArtifactStatus, struct, ArtifactStatus_fields)

\* Artifact.to_dict (inherited): kind, and the three records' own to_dict.
Artifact_to_dict(self) ==
    ModelObj_to_dict([f \in Artifact_fields |->
        CASE f = "kind" -> self.kind
          [] f = "metadata" -> ArtifactMetadata_to_dict(self.metadata)
          [] f = "spec" -> ArtifactSpec_to_dict(self.spec)
          [] f = "status" -> ArtifactStatus_to_dict(self.status)])

\* Artifact.from_dict (inherited): a fresh Artifact(), then each key assigned;
\* the metadata, spec and status setters coerce a dict with from_dict.
Artifact_from_dict(struct) ==
    LET new_obj == Artifact(None, None, None, FALSE, None, None, None, None, {}, {})
        d == struct[2]
    IN  [kind |-> IF "kind" \in DOMAIN d THEN d.kind ELSE new_obj.kind,
         metadata |-> IF "metadata" \in DOMAIN d THEN ArtifactMetadata_from_dict(d.metadata)
                      ELSE new_obj.metadata,
         spec |-> IF "spec" \in DOMAIN d THEN ArtifactSpec_from_dict(d.spec) ELSE new_obj.spec,
         status |-> IF "status" \in DOMAIN d THEN ArtifactStatus_from_dict(d.status)
                    ELSE new_obj.status]

\* LegacyArtifact.to_dict; "inline" is read through the property.
LegacyArtifact_to_dict(self) ==
    ModelObj_to_dict([f \in LegacyArtifact_fields |->
                         IF f = "inline" THEN LegacyArtifact_inline(self) ELSE self[f]])

\* LegacyArtifact.from_dict; "inline" is written through the property setter.
LegacyArtifact_from_dict(struct) ==
    LET plain == ModelObj_from_dict(LegacyArtifact(None, None, None, FALSE, None, None, None),
                                    struct, LegacyArtifact_fields \ {"inline"})
    IN  IF "inline" \in DOMAIN struct[2] THEN [plain EXCEPT !._body = struct[2].inline]
        ELSE plain

-----------------------------------------------------------------------------
(* Upload: an artifact of each schema built from the same data, then       *)
(* uploaded any number of times to a store that may fail.                  *)

TargetPaths == {S("store://out/model"), S("s3://bucket/model")}
SuppliedHashes == {None, S("cafe")}
SuppliedSizes == {None, I(7)}

Snapshot == [art |-> art, leg |-> leg, calls |-> calls, lcalls |-> lcalls]

InitUpload ==
    /\ calc_hash \in BOOLEAN
    /\ default_project = S("default")
    /\ \E body \in Bodies, src \in SrcPaths, t \in TargetPaths, h \in SuppliedHashes, sz \in SuppliedSizes :
         /\ art = Artifact(S("model"), body, None, FALSE, None, sz, t, None,
                           {ArtifactMetadata(None, None, None, None, None, h, None)},
                           {ArtifactSpec(src, None, None, FALSE, None, None, None, None, None)})
         /\ leg = [LegacyArtifact(S("model"), body, None, FALSE, None, sz, t)
                      EXCEPT !.src_path = src, !.hash = h]
         /\ supplied = [hash |-> h, size |-> sz]
    /\ calls = <<>>
    /\ lcalls = <<>>
    /\ op = "init"
    /\ args = <<>>
    /\ pre = [art |-> art, leg |-> leg, calls |-> <<>>, lcalls |-> <<>>]
    /\ err = "none"
    /\ result = None
    /\ uploaded = FALSE
    /\ notices = <<>>
    /\ listings = <<>>
    /\ store = [artifacts |-> <<>>, documents |-> <<>>]
    /\ environ = <<>>
    /\ config = [auto_mount_type |-> "none", auto_mount_params |-> <<>>]

\* artifact.upload(); the store either accepts the call or raises.
Upload ==
    /\ Len(calls) < MaxCalls
    /\ \E ok \in BOOLEAN :
         LET r == Artifact_upload(art)
             e == IF r.calls # <<>> /\ ~ok THEN "StoreError" ELSE "none"
         IN  /\ art' = r.self
             /\ calls' = calls \o r.calls
             /\ err' = e
             /\ uploaded' = (uploaded \/ e = "none")
             /\ args' = <<ok>>
    /\ op' = "Artifact.upload"
    /\ pre' = Snapshot
    /\ result' = None
    /\ UNCHANGED <<leg, calc_hash, default_project, lcalls, supplied, notices, listings, store, environ, config>>

\* legacy_artifact.upload(); the store either accepts the call or raises.
LegacyUpload ==
    /\ Len(lcalls) < MaxCalls
    /\ \E ok \in BOOLEAN :
         LET r == LegacyArtifact_upload(leg)
         IN  /\ leg' = r.self
             /\ lcalls' = lcalls \o r.calls
             /\ err' = IF r.calls # <<>> /\ ~ok THEN "StoreError" ELSE "none"
             /\ args' = <<ok>>
    /\ op' = "LegacyArtifact.upload"
    /\ pre' = Snapshot
    /\ result' = None
    /\ UNCHANGED <<art, calc_hash, default_project, calls, uploaded, supplied, notices, listings, store, environ, config>>

NextUpload == Upload \/ LegacyUpload

SpecUpload == InitUpload /\ [][NextUpload]_vars

-----------------------------------------------------------------------------
(* Claims about upload.                                                    *)

\* The store calls the last operation added to art's log, and to leg's.
NewCalls == SubSeq(calls, Len(pre.calls) + 1, Len(calls))
NewLegacyCalls == SubSeq(lcalls, Len(pre.lcalls) + 1, Len(lcalls))

HasBody(a) == Truthy(a.spec._body)
HasSourceFile(a) == Truthy(a.spec.src_path) /\ isfile(a.spec.src_path)
LegacyHasBody(a) == Truthy(a._body)
LegacyHasSourceFile(a) == Truthy(a.src_path) /\ isfile(a.src_path)

\* C1: upload() of an artifact with a non-empty body, hashing enabled, sets
\* metadata.hash to the sha1 of the body's bytes, spec.size to the body's byte
\* length (the length of the encoded bytes for a text body) and issues exactly
\* one store put of the body addressed by spec.target_path.
C1_BodyUploadHashSizePut ==
    (op = "Artifact.upload" /\ HasBody(pre.art) /\ calc_hash) =>
        LET body == pre.art.spec._body
        IN  /\ art.metadata.hash = sha1_hexdigest(BodyBytes(body))
            /\ art.spec.size = I(Len(BodyBytes(body)))
            /\ NewCalls = <<StoreCall("put", pre.art.spec.target_path, body)>>

\* C2: upload() of an artifact with no body whose src_path is an existing
\* regular file sets metadata.hash to the hash of the file's bytes (hashing
\* enabled), spec.size to the file's byte length and issues exactly one store
\* upload of that file addressed by spec.target_path; with a body present the
\* body branch is taken and the source file is never handed to the store.
C2_FileUploadHashSizeUpload ==
    op = "Artifact.upload" =>
        LET a == pre.art
            src == a.spec.src_path
        IN  /\ (~HasBody(a) /\ HasSourceFile(a)) =>
                  /\ calc_hash => art.metadata.hash = sha1_hexdigest(FileBytes(src))
                  /\ art.spec.size = I(Len(FileBytes(src)))
                  /\ NewCalls = <<StoreCall("upload", a.spec.target_path, src)>>
            /\ HasBody(a) =>
                  /\ Len(NewCalls) = 1
                  /\ NewCalls[1].method = "put"
                  /\ NewCalls[1].data = a.spec._body

C2_Witness ==
    /\ op = "Artifact.upload"
    /\ calc_hash
    /\ ~HasBody(pre.art)
    /\ pre.art.spec.src_path = S("/data/model.bin")
    /\ art.metadata.hash = sha1_hexdigest(<<1, 2, 3>>)
    /\ art.spec.size = I(3)
    /\ Len(NewCalls) = 1
    /\ NewCalls[1].method = "upload"

\* C3: upload() of an artifact with neither a body nor a src_path naming an
\* existing regular file raises nothing, makes no store call and leaves every
\* field of the artifact unchanged.
C3_UploadNoPayloadIsNoOp ==
    (op = "Artifact.upload" /\ ~HasBody(pre.art) /\ ~HasSourceFile(pre.art)) =>
        /\ err = "none"
        /\ NewCalls = <<>>
        /\ art = pre.art

C3_Witness ==
    /\ op = "Artifact.upload"
    /\ ~HasBody(pre.art)
    /\ pre.art.spec.src_path = S("/data/missing")
    /\ pre.art.metadata.hash = S("cafe")
    /\ art = pre.art
    /\ calls = pre.calls
    /\ err = "none"

\* C4: with calc_hash false, Artifact.upload() and LegacyArtifact.upload() leave
\* the hash field unchanged; whatever the flag, they set size and issue the
\* store call that depends only on the body, the source file and target_path.
C4_NoHashWhenDisabled ==
    /\ op = "Artifact.upload" =>
          LET a == pre.art
          IN  /\ ~calc_hash => art.metadata.hash = a.metadata.hash
              /\ HasBody(a) =>
                    /\ art.spec.size = I(PyLen(a.spec._body))
                    /\ NewCalls = <<StoreCall("put", a.spec.target_path, a.spec._body)>>
              /\ (~HasBody(a) /\ HasSourceFile(a)) =>
                    /\ art.spec.size = I(st_size(a.spec.src_path))
                    /\ NewCalls = <<StoreCall("upload", a.spec.target_path, a.spec.src_path)>>
    /\ op = "LegacyArtifact.upload" =>
          LET a == pre.leg
          IN  /\ ~calc_hash => leg.hash = a.hash
              /\ LegacyHasBody(a) =>
                    /\ leg.size = I(PyLen(a._body))
                    /\ NewLegacyCalls = <<StoreCall("put", a.target_path, a._body)>>
              /\ (~LegacyHasBody(a) /\ LegacyHasSourceFile(a)) =>
                    /\ leg.size = I(st_size(a.src_path))
                    /\ NewLegacyCalls = <<StoreCall("upload", a.target_path, a.src_path)>>

C4_Witness ==
    /\ ~calc_hash
    /\ op = "Artifact.upload"
    /\ HasBody(pre.art)
    /\ pre.art.metadata.hash = S("cafe")
    /\ art.metadata.hash = S("cafe")
    /\ art.spec.size # pre.art.spec.size
    /\ Len(NewCalls) = 1
    /\ Len(lcalls) = 1
    /\ leg.hash = S("cafe")
    /\ leg.size = art.spec.size

\* C5: while no upload() of the artifact has completed successfully (also
\* after an upload() whose store call raised), metadata.hash and spec.size
\* hold the caller-supplied values.
C5_HashSizeOnlyAfterSuccessfulUpload ==
    ~uploaded => (art.metadata.hash = supplied.hash /\ art.spec.size = supplied.size)

-----------------------------------------------------------------------------
(* Addressing: an artifact of each schema with the same (project, db_key,  *)
(* tree, iter), whose coordinates the caller may change, asked for its URL.*)

MaxIter == 1

Projects == {S("p1"), S("p2")}
DbKeys == {S("model"), S("data")}
Trees == {None, S("v1"), S("latest")}
Iters == {None} \cup {I(n) : n \in 0..MaxIter}

\* The valid (project, db_key, tree, iter) tuples.
Tuples == Projects \X DbKeys \X Trees \X Iters

TupleOf(a) == <<a.metadata.project, a.spec.db_key, a.metadata.tree, a.metadata.iter>>

\* An artifact with the coordinates t, its other fields drawn from o.
ArtifactAt(t, o) ==
    Artifact(o.key, None, None, FALSE, None, None, o.target_path, t[1],
             {ArtifactMetadata(None, None, t[4], t[3], None, o.hash, None)},
             {ArtifactSpec(None, None, None, FALSE, None, None, t[2], None, None)})

LegacyArtifactAt(t, o) ==
    [LegacyArtifact(o.key, None, None, FALSE, None, None, o.target_path)
        EXCEPT !.project = t[1], !.db_key = t[2], !.tree = t[3], !.iter = t[4], !.hash = o.hash]

\* What two artifacts with one tuple may differ in.
OtherFields == [key : {S("k1"), S("k2")}, target_path : {None, S("store://out/model")}, hash : {None, S("cafe")}]

InitUrl ==
    /\ calc_hash = TRUE
    /\ default_project = S("default")
    /\ \E t \in Tuples, o \in OtherFields :
         /\ art = ArtifactAt(t, o)
         /\ leg = LegacyArtifactAt(t, o)
         /\ supplied = [hash |-> o.hash, size |-> None]
    /\ calls = <<>>
    /\ lcalls = <<>>
    /\ op = "init"
    /\ args = <<>>
    /\ pre = [art |-> art, leg |-> leg, calls |-> <<>>, lcalls |-> <<>>]
    /\ err = "none"
    /\ result = None
    /\ uploaded = FALSE
    /\ notices = <<>>
    /\ listings = <<>>
    /\ store = [artifacts |-> <<>>, documents |-> <<>>]
    /\ environ = <<>>
    /\ config = [auto_mount_type |-> "none", auto_mount_params |-> <<>>]

\* artifact.get_store_url(with_tag, project)
GetStoreUrl ==
    /\ \E with_tag \in BOOLEAN, project \in {None, S("")} \cup Projects :
         /\ result' = Artifact_get_store_url(art, with_tag, project)
         /\ args' = [with_tag |-> with_tag, project |-> project]
    /\ op' = "Artifact.get_store_url"
    /\ pre' = Snapshot
    /\ err' = "none"
    /\ UNCHANGED <<art, leg, calc_hash, default_project, calls, lcalls, uploaded, supplied, notices, listings, store, environ, config>>

\* legacy_artifact.get_store_url(with_tag, project)
LegacyGetStoreUrl ==
    /\ \E with_tag \in BOOLEAN, project \in {None, S("")} \cup Projects :
         /\ result' = LegacyArtifact_get_store_url(leg, with_tag, project)
         /\ args' = [with_tag |-> with_tag, project |-> project]
    /\ op' = "LegacyArtifact.get_store_url"
    /\ pre' = Snapshot
    /\ err' = "none"
    /\ UNCHANGED <<art, leg, calc_hash, default_project, calls, lcalls, uploaded, supplied, notices, listings, store, environ, config>>

NextUrl == GetStoreUrl \/ LegacyGetStoreUrl

SpecUrl == InitUrl /\ [][NextUrl]_vars

\* C6: get_store_url() is a function of (project, db_key, tree, iter) alone and
\* is injective in it: an artifact with the same tuple, whatever its other
\* fields, has the URI just returned, and an artifact with any other tuple has
\* a different one.
C6_StoreUrlDeterministicInjective ==
    (op = "Artifact.get_store_url" /\ args.with_tag /\ args.project = None) =>
        \A t \in Tuples, o \in OtherFields :
            (Artifact_get_store_url(ArtifactAt(t, o), TRUE, None) = result) <=> (t = TupleOf(art))

C6_Witness ==
    /\ op = "Artifact.get_store_url"
    /\ args.with_tag
    /\ args.project = None
    /\ TupleOf(art) = <<S("p1"), S("model"), S("v1"), I(0)>>
    /\ result = <<"store://", "artifacts", "/", "p1", "/", "model", "#", "0", ":", "v1">>
    /\ \E o \in OtherFields : ArtifactAt(TupleOf(art), o) # art

-----------------------------------------------------------------------------
(* Construction: Artifact(...) called with every mix of flat arguments and *)
(* supplied metadata/spec, under either setting of the default project.    *)

CtorBodies == {None, Bytes(<<>>), Bytes(<<97>>), Text(<<233>>)}

\* The metadata a caller may supply: none, or one carrying a key and a project.
CtorMetadata ==
    {{}} \cup {{ArtifactMetadata(k, p, None, None, None, None, None)} :
                  k \in {None, S("mkey")}, p \in {None, S("mproj")}}

\* The spec a caller may supply: none, or one carrying the flat-argument fields,
\* an inline flag and possibly a body.
CtorSpec ==
    {{}} \cup {{ArtifactSpec(None, IF e THEN S("s3://spec/target") ELSE None,
                             IF e THEN S("sviewer") ELSE None, inl,
                             IF e THEN S("sformat") ELSE None,
                             IF e THEN I(9) ELSE None, None, None, b)} :
                  e \in BOOLEAN, inl \in BOOLEAN, b \in {None, Bytes(<<98>>)}}

CtorArgs ==
    [key : {None, S("akey")}, body : CtorBodies, viewer : {None, S("aviewer")},
     is_inline : BOOLEAN, format : {None, S("aformat")}, size : {None, I(0), I(5)},
     target_path : {None, S("store://out/model")}, project : {None, S("aproj")},
     metadata : CtorMetadata, spec : CtorSpec]

Construct(a) ==
    Artifact(a.key, a.body, a.viewer, a.is_inline, a.format, a.size, a.target_path, a.project,
             a.metadata, a.spec)

NoArgs ==
    [key |-> None, body |-> None, viewer |-> None, is_inline |-> FALSE, format |-> None,
     size |-> None, target_path |-> None, project |-> None, metadata |-> {}, spec |-> {}]

InitCtor ==
    /\ calc_hash = TRUE
    /\ default_project \in {S("default"), S("team")}
    /\ art = Construct(NoArgs)
    /\ leg = LegacyArtifact(None, None, None, FALSE, None, None, None)
    /\ supplied = [hash |-> None, size |-> None]
    /\ calls = <<>>
    /\ lcalls = <<>>
    /\ op = "init"
    /\ args = NoArgs
    /\ pre = [art |-> art, leg |-> leg, calls |-> <<>>, lcalls |-> <<>>]
    /\ err = "none"
    /\ result = None
    /\ uploaded = FALSE
    /\ notices = <<>>
    /\ listings = <<>>
    /\ store = [artifacts |-> <<>>, documents |-> <<>>]
    /\ environ = <<>>
    /\ config = [auto_mount_type |-> "none", auto_mount_params |-> <<>>]

\* art = Artifact(key, body, viewer, is_inline, format, size, target_path,
\*                project, metadata, spec)
NewArtifact ==
    /\ op = "init"
    /\ \E a \in CtorArgs :
         /\ art' = Construct(a)
         /\ args' = a
         /\ supplied' = [hash |-> art'.metadata.hash, size |-> art'.spec.size]
    /\ op' = "Artifact"
    /\ pre' = Snapshot
    /\ err' = "none"
    /\ result' = None
    /\ uploaded' = FALSE
    /\ UNCHANGED <<leg, calc_hash, default_project, calls, lcalls, notices, listings, store, environ, config>>

NextCtor == NewArtifact

SpecCtor == InitCtor /\ [][NextCtor]_vars

\* The metadata and the spec the constructor starts from.
GivenMetadata == _verify_dict(args.metadata, ArtifactMetadata(None, None, None, None, None, None, None))
GivenSpec == _verify_dict(args.spec, ArtifactSpec(None, None, None, FALSE, None, None, None, None, None))

\* explicit argument, else the embedded value, else the default
Precedence(arg, embedded, default) ==
    IF Truthy(arg) THEN arg ELSE IF Truthy(embedded) THEN embedded ELSE default

\* C7: construction resolves key, project, size, target_path, format and viewer
\* as: the flat argument, else the value on the supplied metadata/spec, else
\* the default; the default of project is the process-wide default project.
C7_ConstructionPrecedence ==
    op = "Artifact" =>
        /\ art.metadata.key = Precedence(args.key, GivenMetadata.key, GivenMetadata.key)
        /\ art.spec.size = Precedence(args.size, GivenSpec.size, GivenSpec.size)
        /\ art.spec.target_path = Precedence(args.target_path, GivenSpec.target_path, GivenSpec.target_path)
        /\ art.spec.format = Precedence(args.format, GivenSpec.format, GivenSpec.format)
        /\ art.spec.viewer = Precedence(args.viewer, GivenSpec.viewer, GivenSpec.viewer)
        /\ art.metadata.project = Precedence(args.project, GivenMetadata.project, default_project)

\* C8 as stated: after construction with a non-empty body, whatever is_inline,
\* reading spec.inline returns that body.
C8_BodyImpliesInline ==
    (op = "Artifact" /\ Truthy(args.body)) => ArtifactSpec_inline(art.spec) = args.body

\* C8, amended: after construction with a non-empty body the spec holds that
\* body; reading spec.inline returns it when the is_inline argument or the
\* supplied spec's inline flag is set, and returns None otherwise.
C8_BodyInlineOnlyWhenFlagged ==
    (op = "Artifact" /\ Truthy(args.body)) =>
        /\ ArtifactSpec_get_body(art.spec) = args.body
        /\ ArtifactSpec_inline(art.spec) =
              IF args.is_inline \/ GivenSpec._is_inline THEN args.body ELSE None

C8_Witness ==
    /\ op = "Artifact"
    /\ args.body = Bytes(<<97>>)
    /\ ~args.is_inline
    /\ args.spec # {}
    /\ GivenSpec._is_inline
    /\ GivenSpec._body = Bytes(<<98>>)
    /\ ArtifactSpec_inline(art.spec) = Bytes(<<97>>)

-----------------------------------------------------------------------------
(* Serialisation: an artifact of each schema holding the same data,        *)
(* projected to a dict and rebuilt from it.                                *)

DictBodies == {None, Bytes(<<97>>), Text(<<233>>)}
DictExtraData == {None, Dict([readme |-> S("notes.txt")])}

InitDict ==
    /\ calc_hash = TRUE
    /\ default_project = S("default")
    /\ \E body \in DictBodies, inl \in BOOLEAN, viewer \in {None, S("table")},
          sz \in SuppliedSizes, t \in {None, S("store://out/model")}, p \in Projects,
          it \in {None, I(0)}, tree \in {None, S("v1")}, h \in SuppliedHashes,
          src \in {None, S("/data/model.bin")}, dbk \in {None, S("model")}, ed \in DictExtraData :
         /\ art = Artifact(S("model"), body, viewer, inl, None, sz, t, p,
                           {ArtifactMetadata(None, None, it, tree, None, h, None)},
                           {ArtifactSpec(src, None, None, FALSE, None, None, dbk, ed, None)})
         /\ leg = [LegacyArtifact(S("model"), body, viewer, inl, None, sz, t)
                      EXCEPT !.project = p, !.iter = it, !.tree = tree, !.hash = h,
                             !.src_path = src, !.db_key = dbk, !.extra_data = Or(ed, EmptyDict)]
         /\ supplied = [hash |-> h, size |-> sz]
    /\ calls = <<>>
    /\ lcalls = <<>>
    /\ op = "init"
    /\ args = <<>>
    /\ pre = [art |-> art, leg |-> leg, calls |-> <<>>, lcalls |-> <<>>]
    /\ err = "none"
    /\ result = None
    /\ uploaded = FALSE
    /\ notices = <<>>
    /\ listings = <<>>
    /\ store = [artifacts |-> <<>>, documents |-> <<>>]
    /\ environ = <<>>
    /\ config = [auto_mount_type |-> "none", auto_mount_params |-> <<>>]

\* artifact.to_dict() and legacy_artifact.to_dict(), side by side
ToDict ==
    /\ result' = [current |-> Artifact_to_dict(art), legacy |-> LegacyArtifact_to_dict(leg)]
    /\ op' = "to_dict"
    /\ args' = <<>>
    /\ pre' = Snapshot
    /\ err' = "none"
    /\ UNCHANGED <<art, leg, calc_hash, default_project, calls, lcalls, uploaded, supplied, notices, listings, store, environ, config>>

\* art = Artifact.from_dict(art.to_dict())
Reload ==
    /\ art' = Artifact_from_dict(Artifact_to_dict(art))
    /\ result' = Artifact_to_dict(art')
    /\ op' = "Artifact.from_dict"
    /\ args' = <<>>
    /\ pre' = Snapshot
    /\ err' = "none"
    /\ UNCHANGED <<leg, calc_hash, default_project, calls, lcalls, uploaded, supplied, notices, listings, store, environ, config>>

\* leg = LegacyArtifact.from_dict(leg.to_dict())
LegacyReload ==
    /\ leg' = LegacyArtifact_from_dict(LegacyArtifact_to_dict(leg))
    /\ result' = LegacyArtifact_to_dict(leg')
    /\ op' = "LegacyArtifact.from_dict"
    /\ args' = <<>>
    /\ pre' = Snapshot
    /\ err' = "none"
    /\ UNCHANGED <<art, calc_hash, default_project, calls, lcalls, uploaded, supplied, notices, listings, store, environ, config>>

NextDict == ToDict \/ Reload \/ LegacyReload

SpecDict == InitDict /\ [][NextDict]_vars

\* C9: for any current-schema artifact a, also one with an inline body and the
\* inline flag set, from_dict(a.to_dict()).to_dict() equals a.to_dict().
C9_DictRoundTrip ==
    op = "Artifact.from_dict" => result = Artifact_to_dict(pre.art)

\* The two artifacts hold the same data, field by field.
EquivalentData(a, l) ==
    /\ \A f \in ArtifactMetadata_fields : a.metadata[f] = l[f]
    /\ \A f \in ArtifactSpec_fields \ {"inline", "license", "encoding"} : a.spec[f] = l[f]
    /\ a.spec._body = l._body
    /\ a.spec._is_inline = l._inline

\* The fields of a current-schema dict, those of its metadata, spec and status
\* entries included, under their own names.
NestedFields(d) ==
    UNION {DOMAIN d[2][r][2] : r \in DOMAIN d[2] \cap {"metadata", "spec", "status"}}

FlatValue(d, f) ==
    IF f \in DOMAIN d[2] THEN d[2][f]
    ELSE LET r == CHOOSE x \in DOMAIN d[2] \cap {"metadata", "spec", "status"} : f \in DOMAIN d[2][x][2]
         IN  d[2][r][2][f]

\* C10: for a LegacyArtifact and an Artifact holding equivalent data, every
\* field name that appears in both to_dict() outputs, 'kind' included, carries
\* equal values in the two.
C10_LegacyAndCurrentDictAgree ==
    (op = "to_dict" /\ EquivalentData(art, leg)) =>
        \A f \in (DOMAIN result.current[2] \cup NestedFields(result.current)) \cap DOMAIN result.legacy[2] :
            FlatValue(result.current, f) = result.legacy[2][f]

-----------------------------------------------------------------------------
(* The two schemas side by side: an Artifact and a LegacyArtifact with the *)
(* same coordinates, body, src_path and target_path, each asked for its    *)
(* URL and uploaded.                                                       *)

MirrorTuples == Projects \X {S("model")} \X {None, S("v1")} \X {None, I(0)}
MirrorBodies == {None, Bytes(<<97>>), Text(<<233>>)}
MirrorSrcPaths == {None, S("/data/model.bin"), S("/data/missing")}

InitMirror ==
    /\ calc_hash \in BOOLEAN
    /\ default_project = S("default")
    /\ \E t \in MirrorTuples, body \in MirrorBodies, src \in MirrorSrcPaths, target \in TargetPaths :
         /\ art = Artifact(S("model"), body, None, FALSE, None, None, target, t[1],
                           {ArtifactMetadata(None, None, t[4], t[3], None, None, None)},
                           {ArtifactSpec(src, None, None, FALSE, None, None, t[2], None, None)})
         /\ leg = [LegacyArtifact(S("model"), body, None, FALSE, None, None, target)
                      EXCEPT !.project = t[1], !.db_key = t[2], !.tree = t[3], !.iter = t[4],
                             !.src_path = src]
    /\ supplied = [hash |-> None, size |-> None]
    /\ calls = <<>>
    /\ lcalls = <<>>
    /\ op = "init"
    /\ args = <<>>
    /\ pre = [art |-> art, leg |-> leg, calls |-> <<>>, lcalls |-> <<>>]
    /\ err = "none"
    /\ result = None
    /\ uploaded = FALSE
    /\ notices = <<>>
    /\ listings = <<>>
    /\ store = [artifacts |-> <<>>, documents |-> <<>>]
    /\ environ = <<>>
    /\ config = [auto_mount_type |-> "none", auto_mount_params |-> <<>>]

NextMirror == Upload \/ LegacyUpload \/ GetStoreUrl \/ LegacyGetStoreUrl

SpecMirror == InitMirror /\ [][NextMirror]_vars

\* The inputs get_store_url and upload read agree on the two artifacts.
SameInputs(a, l) ==
    /\ TupleOf(a) = <<l.project, l.db_key, l.tree, l.iter>>
    /\ a.spec._body = l._body
    /\ a.spec.src_path = l.src_path
    /\ a.spec.target_path = l.target_path

\* C11: for a LegacyArtifact and an Artifact with the same (project, db_key,
\* tree, iter), body, src_path and target_path, get_store_url returns the same
\* URI on both, and upload() assigns the same hash and the same size and makes
\* the same sequence of store calls on both.
C11_LegacyMirrorsCurrent ==
    /\ (op = "LegacyArtifact.get_store_url" /\ SameInputs(art, leg)) =>
          result = Artifact_get_store_url(art, args.with_tag, args.project)
    /\ (op = "LegacyArtifact.upload" /\ SameInputs(pre.art, pre.leg)) =>
          LET r == Artifact_upload(pre.art)
              payload == HasBody(pre.art) \/ HasSourceFile(pre.art)
          IN  /\ NewLegacyCalls = r.calls
              /\ payload => leg.size = r.self.spec.size
              /\ (payload /\ calc_hash) => leg.hash = r.self.metadata.hash
              /\ ~payload => (leg = pre.leg /\ r.self = pre.art)
              /\ ~calc_hash => (leg.hash = pre.leg.hash /\ r.self.metadata.hash = pre.art.metadata.hash)

C11_Witness ==
    /\ op = "LegacyArtifact.upload"
    /\ calc_hash
    /\ SameInputs(art, leg)
    /\ Len(calls) = 1
    /\ calls = lcalls
    /\ leg.hash = sha1_hexdigest(<<195, 169>>)
    /\ art.metadata.hash = leg.hash
    /\ art.spec.size = leg.size
    /\ Artifact_get_store_url(art, TRUE, None) = LegacyArtifact_get_store_url(leg, TRUE, None)

-----------------------------------------------------------------------------
(* Legacy accessors: an artifact read and written through its flattened    *)
(* properties.                                                             *)

\* An artifact whose sixteen proxied fields all differ, and a bare one.
AccessArtifacts ==
    LET a == Artifact(S("k"), None, S("viewer0"), FALSE, S("csv"), I(7), S("store://out/model"), S("p1"),
                      {ArtifactMetadata(None, None, I(2), S("v1"), None, S("cafe"), S("latest"))},
                      {ArtifactSpec(S("/data/model.bin"), None, None, FALSE, None, None, S("dbk"),
                                    Dict([readme |-> S("notes.txt")]), None)})
    IN  {[a EXCEPT !.metadata.labels = Dict([owner |-> S("me")]),
                   !.spec.producer = Dict([kind |-> S("run")]),
                   !.spec.sources = List(<<S("src0")>>)],
         Artifact(None, None, None, FALSE, None, None, None, None, {}, {})}

\* Values a caller may assign through a setter.
AssignedValues == {None, S("new"), I(4)}

InitAccess ==
    /\ calc_hash = TRUE
    /\ default_project = S("default")
    /\ art \in AccessArtifacts
    /\ leg = LegacyArtifact(None, None, None, FALSE, None, None, None)
    /\ supplied = [hash |-> art.metadata.hash, size |-> art.spec.size]
    /\ calls = <<>>
    /\ lcalls = <<>>
    /\ op = "init"
    /\ args = <<>>
    /\ pre = [art |-> art, leg |-> leg, calls |-> <<>>, lcalls |-> <<>>]
    /\ err = "none"
    /\ result = None
    /\ uploaded = FALSE
    /\ notices = <<>>
    /\ listings = <<>>
    /\ store = [artifacts |-> <<>>, documents |-> <<>>]
    /\ environ = <<>>
    /\ config = [auto_mount_type |-> "none", auto_mount_params |-> <<>>]

\* artifact.<name>
GetProperty ==
    /\ \E name \in LegacyAccessors :
         LET r == Artifact_get_property(art, name)
         IN  /\ result' = r.value
             /\ notices' = r.notices
             /\ args' = [name |-> name]
    /\ op' = "Artifact.property.get"
    /\ pre' = Snapshot
    /\ err' = "none"
    /\ UNCHANGED <<art, leg, calc_hash, default_project, calls, lcalls, uploaded, supplied, listings, store, environ, config>>

\* artifact.<name> = value, on an artifact not yet written to
SetProperty ==
    /\ art \in AccessArtifacts
    /\ \E name \in LegacyAccessors, value \in AssignedValues :
         LET r == Artifact_set_property(art, name, value)
         IN  /\ art' = r.self
             /\ notices' = r.notices
             /\ args' = [name |-> name, value |-> value]
    /\ op' = "Artifact.property.set"
    /\ pre' = Snapshot
    /\ err' = "none"
    /\ result' = None
    /\ UNCHANGED <<leg, calc_hash, default_project, calls, lcalls, uploaded, supplied, listings, store, environ, config>>

NextAccess == GetProperty \/ SetProperty

SpecAccess == InitAccess /\ [][NextAccess]_vars

\* The record that holds the field a flattened accessor stands for.
OwnerOf(name) ==
    IF name \in {"key", "tag", "labels", "iter", "tree", "project", "hash"} THEN "metadata" ELSE "spec"

\* C12: each flattened accessor reads and writes exactly the metadata or spec
\* field of its name (a read returns it and changes nothing, a write changes
\* only it) and emits exactly one deprecation notice per access.
C12_AccessorsProxyAndWarnOnce ==
    /\ op = "Artifact.property.get" =>
          /\ result = pre.art[OwnerOf(args.name)][args.name]
          /\ art = pre.art
          /\ Len(notices) = 1
          /\ notices[1].category = "PendingDeprecationWarning"
    /\ op = "Artifact.property.set" =>
          /\ art = [pre.art EXCEPT ![OwnerOf(args.name)][args.name] = args.value]
          /\ Len(notices) = 1
          /\ notices[1].category = "PendingDeprecationWarning"

C12_Witness ==
    /\ op = "Artifact.property.get"
    /\ args.name = "key"
    /\ result = S("new")
    /\ art.metadata.key = S("new")
    /\ art.spec.db_key = S("dbk")
    /\ Len(notices) = 1

-----------------------------------------------------------------------------
(* Directory artifacts: upload of every entry of a local directory.        *)

RECURSIVE DirArtifact_upload_files(_, _, _, _)
\* The loop of DirArtifact.upload over the entries still to process; fail is the
\* position of the store call that raises (0: none does).
DirArtifact_upload_files(self, files, fail, done) ==
    IF files = <<>> THEN [err |-> "none", calls |-> done]
    ELSE LET file_path == os_path_join(self.spec.src_path, S(Head(files)))
             target == os_path_join(self.spec.target_path, S(Head(files)))
             made == Append(done, StoreCall("upload", target, file_path))
         IN  IF ~isfile(file_path) THEN [err |-> "ValueError", calls |-> done]
             ELSE IF Len(made) = fail THEN [err |-> "StoreError", calls |-> made]
             ELSE DirArtifact_upload_files(self, Tail(files), fail, made)

\* DirArtifact.upload with every entry validated before the first store call.
DirArtifact_upload_ValidateFirst(self, files, fail) ==
    IF ~Truthy(self.spec.src_path) THEN [err |-> "ValueError", calls |-> <<>>, listings |-> <<>>]
    ELSE IF listdir(self.spec.src_path) = {} THEN [err |-> "OSError", calls |-> <<>>, listings |-> <<self.spec.src_path>>]
    ELSE IF \E i \in 1..Len(files) : ~isfile(os_path_join(self.spec.src_path, S(files[i])))
         THEN [err |-> "ValueError", calls |-> <<>>, listings |-> <<self.spec.src_path>>]
    ELSE LET r == DirArtifact_upload_files(self, files, fail, <<>>)
         IN  [err |-> r.err, calls |-> r.calls, listings |-> <<self.spec.src_path>>]

\* DirArtifact.upload; files is what os.listdir returns when it succeeds.
DirArtifact_upload(self, files, fail) ==
    IF ~Truthy(self.spec.src_path) THEN [err |-> "ValueError", calls |-> <<>>, listings |-> <<>>]
    ELSE IF listdir(self.spec.src_path) = {} THEN [err |-> "OSError", calls |-> <<>>, listings |-> <<self.spec.src_path>>]
    ELSE LET r == DirArtifact_upload_files(self, files, fail, <<>>)
         IN  [err |-> r.err, calls |-> r.calls, listings |-> <<self.spec.src_path>>]

RECURSIVE LegacyDirArtifact_upload_files(_, _, _, _)
\* The loop of LegacyDirArtifact.upload over the entries still to process; fail is the
\* position of the store call that raises (0: none does).
LegacyDirArtifact_upload_files(self, files, fail, done) ==
    IF files = <<>> THEN [err |-> "none", calls |-> done]
    ELSE LET file_path == os_path_join(self.src_path, S(Head(files)))
             target == os_path_join(self.target_path, S(Head(files)))
             made == Append(done, StoreCall("upload", target, file_path))
         IN  IF ~isfile(file_path) THEN [err |-> "ValueError", calls |-> done]
             ELSE IF Len(made) = fail THEN [err |-> "StoreError", calls |-> made]
             ELSE LegacyDirArtifact_upload_files(self, Tail(files), fail, made)

\* LegacyDirArtifact.upload with the directory listed before src_path is tested.
LegacyDirArtifact_upload_ListFirst(self, files, fail) ==
    IF ~Truthy(self.src_path) THEN [err |-> "ValueError", calls |-> <<>>, listings |-> <<self.src_path>>]
    ELSE IF listdir(self.src_path) = {} THEN [err |-> "OSError", calls |-> <<>>, listings |-> <<self.src_path>>]
    ELSE LET r == LegacyDirArtifact_upload_files(self, files, fail, <<>>)
         IN  [err |-> r.err, calls |-> r.calls, listings |-> <<self.src_path>>]

\* LegacyDirArtifact.upload; files is what os.listdir returns when it succeeds.
LegacyDirArtifact_upload(self, files, fail) ==
    IF ~Truthy(self.src_path) THEN [err |-> "ValueError", calls |-> <<>>, listings |-> <<>>]
    ELSE IF listdir(self.src_path) = {} THEN [err |-> "OSError", calls |-> <<>>, listings |-> <<self.src_path>>]
    ELSE LET r == LegacyDirArtifact_upload_files(self, files, fail, <<>>)
         IN  [err |-> r.err, calls |-> r.calls, listings |-> <<self.src_path>>]

DirSrcPaths == {None, S(""), S("/data"), S("/data/sub"), S("/data/missing")}
DirTargetPaths == {S("store://out/model"), S("s3://bucket/dir/")}

\* DirArtifact(key, src_path=..., target_path=...)
DirArtifactAt(src_path, target_path) ==
    [Artifact(S("dir0"), None, None, FALSE, None, None, target_path, None, {}, {}) EXCEPT !.spec.src_path = src_path]

\* LegacyDirArtifact(key, src_path=..., target_path=...)
LegacyDirArtifactAt(src_path, target_path) ==
    [LegacyArtifact(S("dir0"), None, None, FALSE, None, None, target_path) EXCEPT !.src_path = src_path, !.kind = S("dir")]

\* What os.listdir may return for a source path, <<>> standing in where it is not called or raises.
ListingsOf(src_path) ==
    IF Truthy(src_path) /\ listdir(src_path) # {} THEN listdir(src_path) ELSE {<<>>}

InitDir ==
    /\ calc_hash \in BOOLEAN
    /\ default_project = S("default")
    /\ \E src \in DirSrcPaths, target \in DirTargetPaths :
         /\ art = DirArtifactAt(src, target)
         /\ leg = LegacyDirArtifactAt(src, target)
    /\ supplied = [hash |-> None, size |-> None]
    /\ calls = <<>>
    /\ lcalls = <<>>
    /\ op = "init"
    /\ args = <<>>
    /\ pre = [art |-> art, leg |-> leg, calls |-> <<>>, lcalls |-> <<>>]
    /\ err = "none"
    /\ result = None
    /\ uploaded = FALSE
    /\ notices = <<>>
    /\ listings = <<>>
    /\ store = [artifacts |-> <<>>, documents |-> <<>>]
    /\ environ = <<>>
    /\ config = [auto_mount_type |-> "none", auto_mount_params |-> <<>>]

\* dir_artifact.upload()
DirUpload ==
    /\ Len(calls) < MaxCalls
    /\ \E files \in ListingsOf(art.spec.src_path) :
         \E fail \in 0..Len(files) :
            LET r == DirArtifact_upload(art, files, fail)
            IN  /\ calls' = calls \o r.calls
                /\ err' = r.err
                /\ listings' = r.listings
                /\ args' = [files |-> files, fail |-> fail]
    /\ op' = "DirArtifact.upload"
    /\ pre' = Snapshot
    /\ result' = None
    /\ UNCHANGED <<art, leg, calc_hash, default_project, lcalls, uploaded, supplied, notices, store, environ, config>>

\* legacy_dir_artifact.upload()
LegacyDirUpload ==
    /\ Len(lcalls) < MaxCalls
    /\ \E files \in ListingsOf(leg.src_path) :
         \E fail \in 0..Len(files) :
            LET r == LegacyDirArtifact_upload(leg, files, fail)
            IN  /\ lcalls' = lcalls \o r.calls
                /\ err' = r.err
                /\ listings' = r.listings
                /\ args' = [files |-> files, fail |-> fail]
    /\ op' = "LegacyDirArtifact.upload"
    /\ pre' = Snapshot
    /\ result' = None
    /\ UNCHANGED <<art, leg, calc_hash, default_project, calls, uploaded, supplied, notices, store, environ, config>>

NextDir == DirUpload \/ LegacyDirUpload

SpecDir == InitDir /\ [][NextDir]_vars

\* C13: DirArtifact.upload() and LegacyDirArtifact.upload() with src_path unset
\* (None or empty) fail with a validation error, having made no store call and
\* having listed no directory.
C13_DirUploadNeedsSrcPath ==
    /\ (op = "DirArtifact.upload" /\ pre.art.spec.src_path \in {None, S("")}) =>
          (err = "ValueError" /\ calls = pre.calls /\ listings = <<>>)
    /\ (op = "LegacyDirArtifact.upload" /\ pre.leg.src_path \in {None, S("")}) =>
          (err = "ValueError" /\ lcalls = pre.lcalls /\ listings = <<>>)

C13_Witness ==
    /\ op = "LegacyDirArtifact.upload"
    /\ leg.src_path = None
    /\ err = "ValueError"
    /\ lcalls = <<>>
    /\ listings = <<>>
    /\ store = [artifacts |-> <<>>, documents |-> <<>>]
    /\ environ = <<>>
    /\ config = [auto_mount_type |-> "none", auto_mount_params |-> <<>>]

\* The position of the first listed entry that is not a regular file, or one past the end.
FirstNonRegular(src_path, files) ==
    IF \E i \in 1..Len(files) : ~isfile(os_path_join(src_path, S(files[i])))
    THEN CHOOSE i \in 1..Len(files) :
            /\ ~isfile(os_path_join(src_path, S(files[i])))
            /\ \A j \in 1..(i - 1) : isfile(os_path_join(src_path, S(files[j])))
    ELSE Len(files) + 1

\* C14: DirArtifact.upload() with src_path set (a directory that can be listed)
\* uploads the entries in listing order, each regular file to target_path joined
\* with its name; at the first entry that is not a regular file it fails with a
\* validation error, the store having received exactly the uploads of the
\* entries before it; a store call that raises ends the loop the same way, and
\* no call undoes an earlier upload.
C14_DirUploadSequentialNoRollback ==
    (op = "DirArtifact.upload" /\ Truthy(pre.art.spec.src_path) /\ err # "OSError") =>
        LET src == pre.art.spec.src_path
            files == args.files
            k == FirstNonRegular(src, files)
            expected == [i \in 1..(k - 1) |->
                            StoreCall("upload", os_path_join(pre.art.spec.target_path, S(files[i])),
                                      os_path_join(src, S(files[i])))]
        IN  /\ listings = <<src>>
            /\ art = pre.art
            /\ SubSeq(calls, 1, Len(pre.calls)) = pre.calls
            /\ IF args.fail = 0 \/ args.fail >= k
               THEN /\ NewCalls = expected
                    /\ err = (IF k <= Len(files) THEN "ValueError" ELSE "none")
               ELSE /\ NewCalls = SubSeq(expected, 1, args.fail)
                    /\ err = "StoreError"

C14_Witness ==
    /\ op = "DirArtifact.upload"
    /\ args.files = <<"model.bin", "sub", "empty.bin">>
    /\ args.fail = 0
    /\ err = "ValueError"
    /\ pre.calls = <<>>
    /\ calls = <<StoreCall("upload", S("s3://bucket/dir/model.bin"), S("/data/model.bin"))>>

-----------------------------------------------------------------------------
(* upload_extra_data: the extra files and blobs of an artifact.            *)
(* The extra_data argument is a dict in insertion order: a sequence of     *)
(* [key, item] entries with distinct keys.                                 *)

\* artifact_spec.extra_data[name] = value, through the extra_data property
set_extra_data(acc, name, value) ==
    LET got == Artifact_get_property(acc.self, "extra_data")
        d == got.value[2]
        d1 == [k \in DOMAIN d \cup {name} |-> IF k = name THEN value ELSE d[k]]
    IN  [acc EXCEPT !.self.spec.extra_data = Dict(d1), !.notices = @ \o got.notices]

\* The loop body with a bytes item recorded only when update_spec is set.
upload_extra_data_item_BytesIfUpdateSpec(acc, target_path, key, item, prefix, update_spec, fail) ==
    IF item[1] = "bytes"
    THEN LET target == os_path_join(target_path, S(key))
             made == Append(acc.calls, StoreCall("put", target, item))
         IN  IF Len(made) = fail THEN [acc EXCEPT !.calls = made, !.err = "StoreError"]
             ELSE IF update_spec THEN set_extra_data([acc EXCEPT !.calls = made], prefix \o key, target)
                  ELSE [acc EXCEPT !.calls = made]
    ELSE LET local == ~(startswith_sep(item[2]) \/ has_scheme(item[2]))
             base == Artifact_get_property(acc.self, "src_path")
             src_path == IF Truthy(base.value) THEN os_path_join(base.value, item) ELSE item
             reads == IF ~local THEN <<>>
                      ELSE IF Truthy(base.value) THEN base.notices \o base.notices ELSE base.notices
             made == IF local THEN Append(acc.calls, StoreCall("upload", os_path_join(target_path, item), src_path))
                     ELSE acc.calls
             seen == [acc EXCEPT !.notices = @ \o reads]
         IN  IF local /\ ~isfile(src_path) THEN [seen EXCEPT !.err = "ValueError"]
             ELSE IF local /\ Len(made) = fail THEN [seen EXCEPT !.calls = made, !.err = "StoreError"]
             ELSE IF update_spec THEN set_extra_data([seen EXCEPT !.calls = made], prefix \o key, item)
             ELSE [seen EXCEPT !.calls = made]

\* The loop body with the store call made before the local file is looked for.
upload_extra_data_item_UploadThenCheck(acc, target_path, key, item, prefix, update_spec, fail) ==
    IF item[1] = "bytes"
    THEN LET target == os_path_join(target_path, S(key))
             made == Append(acc.calls, StoreCall("put", target, item))
         IN  IF Len(made) = fail THEN [acc EXCEPT !.calls = made, !.err = "StoreError"]
             ELSE set_extra_data([acc EXCEPT !.calls = made], prefix \o key, target)
    ELSE LET local == ~(startswith_sep(item[2]) \/ has_scheme(item[2]))
             base == Artifact_get_property(acc.self, "src_path")
             src_path == IF Truthy(base.value) THEN os_path_join(base.value, item) ELSE item
             reads == IF ~local THEN <<>>
                      ELSE IF Truthy(base.value) THEN base.notices \o base.notices ELSE base.notices
             made == IF local THEN Append(acc.calls, StoreCall("upload", os_path_join(target_path, item), src_path))
                     ELSE acc.calls
             seen == [acc EXCEPT !.notices = @ \o reads]
         IN  IF local /\ ~isfile(src_path) THEN [seen EXCEPT !.calls = made, !.err = "ValueError"]
             ELSE IF local /\ Len(made) = fail THEN [seen EXCEPT !.calls = made, !.err = "StoreError"]
             ELSE IF update_spec THEN set_extra_data([seen EXCEPT !.calls = made], prefix \o key, item)
             ELSE [seen EXCEPT !.calls = made]

\* The body of the loop of upload_extra_data, for one key and item; fail is the
\* position of the store call that raises (0: none does).
upload_extra_data_item(acc, target_path, key, item, prefix, update_spec, fail) ==
    IF item[1] = "bytes"
    THEN LET target == os_path_join(target_path, S(key))
             made == Append(acc.calls, StoreCall("put", target, item))
         IN  IF Len(made) = fail THEN [acc EXCEPT !.calls = made, !.err = "StoreError"]
             ELSE set_extra_data([acc EXCEPT !.calls = made], prefix \o key, target)
    ELSE LET local == ~(startswith_sep(item[2]) \/ has_scheme(item[2]))
             base == Artifact_get_property(acc.self, "src_path")
             src_path == IF Truthy(base.value) THEN os_path_join(base.value, item) ELSE item
             reads == IF ~local THEN <<>>
                      ELSE IF Truthy(base.value) THEN base.notices \o base.notices ELSE base.notices
             made == IF local THEN Append(acc.calls, StoreCall("upload", os_path_join(target_path, item), src_path))
                     ELSE acc.calls
             seen == [acc EXCEPT !.notices = @ \o reads]
         IN  IF local /\ ~isfile(src_path) THEN [seen EXCEPT !.err = "ValueError"]
             ELSE IF local /\ Len(made) = fail THEN [seen EXCEPT !.calls = made, !.err = "StoreError"]
             ELSE IF update_spec THEN set_extra_data([seen EXCEPT !.calls = made], prefix \o key, item)
             ELSE [seen EXCEPT !.calls = made]

RECURSIVE upload_extra_data_items(_, _, _, _, _, _)
\* The loop of upload_extra_data over the entries still to process.
upload_extra_data_items(acc, target_path, entries, prefix, update_spec, fail) ==
    IF entries = <<>> \/ acc.err # "none" THEN acc
    ELSE upload_extra_data_items(
             upload_extra_data_item(acc, target_path, Head(entries).key, Head(entries).item, prefix, update_spec, fail),
             target_path, Tail(entries), prefix, update_spec, fail)

\* upload_extra_data(artifact_spec, extra_data, prefix, update_spec)
upload_extra_data(artifact_spec, extra_data, prefix, update_spec, fail) ==
    IF extra_data = <<>> THEN [self |-> artifact_spec, calls |-> <<>>, notices |-> <<>>, err |-> "none"]
    ELSE LET target_path == Artifact_get_property(artifact_spec, "target_path")
         IN  upload_extra_data_items(
                 [self |-> artifact_spec, calls |-> <<>>, notices |-> target_path.notices, err |-> "none"],
                 target_path.value, extra_data, prefix, update_spec, fail)

MaxExtraItems == 2
ExtraKeys == {"weights", "readme", "plot"}
ExtraItems ==
    {Bytes(<<1>>), S("model.bin"), S("local.txt"), S("notes.txt"), S("/etc/motd"), S("s3://bucket/extra.txt")}
ExtraPrefixes == {"", "extra_"}

\* The dicts of at most MaxExtraItems entries.
ExtraDataArgs ==
    {e \in SeqsUpTo([key : ExtraKeys, item : ExtraItems], MaxExtraItems) :
        \A i, j \in 1..Len(e) : i # j => e[i].key # e[j].key}

InitExtra ==
    /\ calc_hash = TRUE
    /\ default_project = S("default")
    /\ \E src \in {None, S("/data")}, given \in {None, Dict([weights |-> S("kept"), extra_readme |-> S("kept too")])} :
         art = Artifact(S("model"), None, None, FALSE, None, None, S("store://out/model"), None, {},
                        {ArtifactSpec(src, None, None, FALSE, None, None, None, given, None)})
    /\ leg = LegacyArtifact(None, None, None, FALSE, None, None, None)
    /\ supplied = [hash |-> None, size |-> None]
    /\ calls = <<>>
    /\ lcalls = <<>>
    /\ op = "init"
    /\ args = <<>>
    /\ pre = [art |-> art, leg |-> leg, calls |-> <<>>, lcalls |-> <<>>]
    /\ err = "none"
    /\ result = None
    /\ uploaded = FALSE
    /\ notices = <<>>
    /\ listings = <<>>
    /\ store = [artifacts |-> <<>>, documents |-> <<>>]
    /\ environ = <<>>
    /\ config = [auto_mount_type |-> "none", auto_mount_params |-> <<>>]

\* upload_extra_data(artifact, extra_data, prefix, update_spec), once per artifact
UploadExtraData ==
    /\ op = "init"
    /\ \E extra_data \in ExtraDataArgs, prefix \in ExtraPrefixes, update_spec \in BOOLEAN :
         \E fail \in 0..Len(extra_data) :
            LET r == upload_extra_data(art, extra_data, prefix, update_spec, fail)
            IN  /\ art' = r.self
                /\ calls' = calls \o r.calls
                /\ notices' = r.notices
                /\ err' = r.err
                /\ args' = [extra_data |-> extra_data, prefix |-> prefix, update_spec |-> update_spec, fail |-> fail]
    /\ op' = "upload_extra_data"
    /\ pre' = Snapshot
    /\ result' = None
    /\ UNCHANGED <<leg, calc_hash, default_project, lcalls, uploaded, supplied, listings, store, environ, config>>

NextExtra == UploadExtraData

SpecExtra == InitExtra /\ [][NextExtra]_vars

\* What the claims about upload_extra_data say of one entry.
IsBytesItem(e) == e.item[1] = "bytes"
IsLocalItem(e) == ~IsBytesItem(e) /\ ~startswith_sep(e.item[2]) /\ ~has_scheme(e.item[2])
ResolvedItem(a, e) ==
    IF Truthy(a.spec.src_path) THEN os_path_join(a.spec.src_path, e.item) ELSE e.item
IsMissingItem(a, e) == IsLocalItem(e) /\ ~isfile(ResolvedItem(a, e))

\* The extra_data the artifact a holds once the first n entries are recorded.
RecordedExtraData(a, entries, n, prefix, update_spec) ==
    LET d == a.spec.extra_data[2]
        rec == {i \in 1..n : IsBytesItem(entries[i]) \/ update_spec}
        at(k) == CHOOSE i \in rec : prefix \o entries[i].key = k
    IN  Dict([k \in DOMAIN d \cup {prefix \o entries[i].key : i \in rec} |->
                 IF \E i \in rec : prefix \o entries[i].key = k
                 THEN IF IsBytesItem(entries[at(k)])
                      THEN os_path_join(a.spec.target_path, S(entries[at(k)].key))
                      ELSE entries[at(k)].item
                 ELSE d[k]])

\* The store call the entry e of an upload for artifact a makes, if any.
EntryCalls(a, e) ==
    IF IsBytesItem(e) THEN <<StoreCall("put", os_path_join(a.spec.target_path, S(e.key)), e.item)>>
    ELSE IF IsLocalItem(e)
         THEN <<StoreCall("upload", os_path_join(a.spec.target_path, e.item), ResolvedItem(a, e))>>
    ELSE <<>>

RECURSIVE EntriesCalls(_, _, _)
EntriesCalls(a, entries, n) ==
    IF n = 0 THEN <<>> ELSE EntriesCalls(a, entries, n - 1) \o EntryCalls(a, entries[n])

\* C15: an upload_extra_data that runs to its end puts every bytes item to
\* target_path/name and records that path under prefix+name whatever update_spec
\* is, records the value of every path item under prefix+name exactly when
\* update_spec is set, and leaves every other entry of the artifact's extra_data
\* alone; with an empty extra_data it makes no store call and changes nothing.
C15_ExtraDataRecordedAsymmetrically ==
    (op = "upload_extra_data" /\ err = "none") =>
        LET e == args.extra_data
        IN  /\ art = [pre.art EXCEPT !.spec.extra_data =
                         RecordedExtraData(pre.art, e, Len(e), args.prefix, args.update_spec)]
            /\ NewCalls = EntriesCalls(pre.art, e, Len(e))
            /\ e = <<>> => (art = pre.art /\ calls = pre.calls)

C15_Witness ==
    /\ op = "upload_extra_data"
    /\ err = "none"
    /\ ~args.update_spec
    /\ args.prefix = "extra_"
    /\ args.extra_data = <<[key |-> "readme", item |-> S("s3://bucket/extra.txt")], [key |-> "weights", item |-> Bytes(<<1>>)]>>
    /\ art.spec.extra_data = Dict([weights |-> S("kept"), extra_readme |-> S("kept too"),
                                   extra_weights |-> S("store://out/model/weights")])
    /\ calls = <<StoreCall("put", S("store://out/model/weights"), Bytes(<<1>>))>>

\* The position of the first entry whose local file is missing, or 0.
FirstMissing(a, entries) ==
    IF \E i \in 1..Len(entries) : IsMissingItem(a, entries[i])
    THEN CHOOSE i \in 1..Len(entries) :
            /\ IsMissingItem(a, entries[i])
            /\ \A j \in 1..(i - 1) : ~IsMissingItem(a, entries[j])
    ELSE 0

\* C16: when upload_extra_data reaches a relative, scheme-less path item whose
\* file (under src_path when that is set) does not exist, it raises a validation
\* error with no store call and no extra_data record for that item or any later
\* one, the calls and records of the earlier items staying in place.
C16_MissingExtraFileStopsUpload ==
    LET e == args.extra_data
        m == FirstMissing(pre.art, e)
    IN  (op = "upload_extra_data" /\ m > 0 /\ err # "StoreError") =>
            /\ err = "ValueError"
            /\ NewCalls = EntriesCalls(pre.art, e, m - 1)
            /\ art = [pre.art EXCEPT !.spec.extra_data =
                         RecordedExtraData(pre.art, e, m - 1, args.prefix, args.update_spec)]

C16_Witness ==
    /\ op = "upload_extra_data"
    /\ err = "ValueError"
    /\ args.update_spec
    /\ args.prefix = ""
    /\ art.spec.src_path = S("/data")
    /\ args.extra_data = <<[key |-> "weights", item |-> S("model.bin")], [key |-> "readme", item |-> S("notes.txt")]>>
    /\ calls = <<StoreCall("upload", S("store://out/model/model.bin"), S("/data/model.bin"))>>
    /\ art.spec.extra_data = Dict([weights |-> S("model.bin")])

-----------------------------------------------------------------------------
(* Artifact resolution: get_artifact_meta.  The references it is given are *)
(* strings spelled out character by character, so that lower() and         *)
(* endswith() are computed.                                                *)

LowerChar(ch) ==
    CASE ch = "A" -> "a" [] ch = "L" -> "l" [] ch = "M" -> "m" [] ch = "Y" -> "y" [] OTHER -> ch

\* str.lower
lower(str) == [i \in 1..Len(str) |-> LowerChar(str[i])]

\* str.endswith, str.startswith
endswith(str, suffix) ==
    Len(str) >= Len(suffix) /\ SubSeq(str, Len(str) - Len(suffix) + 1, Len(str)) = suffix
startswith(str, prefix) == Len(str) >= Len(prefix) /\ SubSeq(str, 1, Len(prefix)) = prefix

\* datastore.is_store_uri
is_store_uri(url) == startswith(url, <<"s", "t", "o", "r", "e", ":", "/", "/">>)

\* The references: store URIs, paths, and the empty string.
Ref_store == <<"s", "t", "o", "r", "e", ":", "/", "/", "m">>
Ref_store_yaml == <<"s", "t", "o", "r", "e", ":", "/", "/", "m", ".", "y", "a", "m", "l">>
Ref_yaml == <<"m", ".", "y", "a", "m", "l">>
Ref_YAML == <<"M", ".", "Y", "A", "M", "L">>
Ref_yml == <<"m", ".", "y", "m", "l">>
Ref_bin == <<"m", ".", "b", "i", "n">>
Ref_yaml_dir == <<"y", "a", "m", "l">>
References == {Ref_store, Ref_store_yaml, Ref_yaml, Ref_YAML, Ref_yml, Ref_bin, Ref_yaml_dir, <<>>}

\* A DataItem: the handle store_manager.object(url, key) returns.
DataItem(url, key) == <<"DataItem", url, key>>

\* item.artifact_url
artifact_url(item) == item[2]

\* What get_artifact_meta may be given: a string, or a DataItem whose artifact_url is one.
MetaInputs == {S(r) : r \in References} \cup {DataItem(r, "") : r \in References}

\* yaml.load of a fetched document
yaml_load(data) == data[2]

\* mlrun.artifacts.dict_to_artifact: the class is chosen by the schema of the dict.
dict_to_artifact(struct) ==
    IF "metadata" \in DOMAIN struct[2] THEN Artifact_from_dict(struct) ELSE LegacyArtifact_from_dict(struct)

\* artifact_spec.extra_data, on an object of either schema
extra_data_of(artifact_spec) ==
    IF "metadata" \in DOMAIN artifact_spec THEN Artifact_get_property(artifact_spec, "extra_data")
    ELSE [notices |-> <<>>, value |-> artifact_spec.extra_data]

\* The tail of get_artifact_meta: a DataItem per extra_data entry.
get_artifact_meta_result(artifact_spec, made) ==
    LET extra_data == extra_data_of(artifact_spec)
    IN  [err |-> "none", calls |-> made, notices |-> extra_data.notices,
         result |-> [artifact |-> artifact_spec,
                     extra_dataitems |-> [k \in DOMAIN extra_data.value[2] |-> DataItem(extra_data.value[2][k], k)]]]

\* get_artifact_meta with the two tests in the other order.
get_artifact_meta_YamlFirst(artifact, held, ok) ==
    LET url == IF artifact[1] = "DataItem" THEN artifact_url(artifact) ELSE artifact[2]
        failed(made) == [err |-> "StoreError", calls |-> made, notices |-> <<>>, result |-> None]
    IN  IF endswith(lower(url), <<".", "y", "a", "m", "l">>)
        THEN IF ~ok THEN failed(<<StoreCall("get", url, None)>>)
             ELSE get_artifact_meta_result(dict_to_artifact(yaml_load(held.documents[url])),
                                           <<StoreCall("get", url, None)>>)
        ELSE IF is_store_uri(url)
        THEN IF ~ok THEN failed(<<StoreCall("get_store_artifact", url, None)>>)
             ELSE get_artifact_meta_result(held.artifacts[url], <<StoreCall("get_store_artifact", url, None)>>)
        ELSE [err |-> "ValueError", calls |-> <<>>, notices |-> <<>>, result |-> None]

\* get_artifact_meta(artifact) against the store contents held; ok tells whether
\* the one store call it makes returns.
get_artifact_meta(artifact, held, ok) ==
    LET url == IF artifact[1] = "DataItem" THEN artifact_url(artifact) ELSE artifact[2]
        failed(made) == [err |-> "StoreError", calls |-> made, notices |-> <<>>, result |-> None]
    IN  IF is_store_uri(url)
        THEN IF ~ok THEN failed(<<StoreCall("get_store_artifact", url, None)>>)
             ELSE get_artifact_meta_result(held.artifacts[url], <<StoreCall("get_store_artifact", url, None)>>)
        ELSE IF endswith(lower(url), <<".", "y", "a", "m", "l">>)
        THEN IF ~ok THEN failed(<<StoreCall("get", url, None)>>)
             ELSE get_artifact_meta_result(dict_to_artifact(yaml_load(held.documents[url])),
                                           <<StoreCall("get", url, None)>>)
        ELSE [err |-> "ValueError", calls |-> <<>>, notices |-> <<>>, result |-> None]

\* The extra_data of the artifact the store holds.
MetaExtraData ==
    {None, Dict([readme |-> S("notes.txt")]),
     Dict([readme |-> S("store://out/model/readme"), weights |-> S("store://out/model/weights")])}

InitMeta ==
    /\ calc_hash = TRUE
    /\ default_project = S("default")
    /\ \E extra \in MetaExtraData :
         /\ art = Artifact(S("model"), None, None, FALSE, None, None, S("store://out/model"), None, {},
                           {ArtifactSpec(None, None, None, FALSE, None, None, None, extra, None)})
         /\ leg = [LegacyArtifact(S("model"), None, None, FALSE, None, None, S("store://out/model"))
                      EXCEPT !.extra_data = Or(extra, EmptyDict)]
    /\ \E legacy \in BOOLEAN :
         store = [artifacts |-> [u \in {r \in References : is_store_uri(r)} |-> IF legacy THEN leg ELSE art],
                  documents |-> [u \in {r \in References : ~is_store_uri(r)} |->
                                    <<"yaml", IF legacy THEN LegacyArtifact_to_dict(leg) ELSE Artifact_to_dict(art)>>]]
    /\ environ = <<>>
    /\ config = [auto_mount_type |-> "none", auto_mount_params |-> <<>>]
    /\ supplied = [hash |-> None, size |-> None]
    /\ calls = <<>>
    /\ lcalls = <<>>
    /\ op = "init"
    /\ args = <<>>
    /\ pre = [art |-> art, leg |-> leg, calls |-> <<>>, lcalls |-> <<>>]
    /\ err = "none"
    /\ result = None
    /\ uploaded = FALSE
    /\ notices = <<>>
    /\ listings = <<>>

\* get_artifact_meta(artifact)
GetArtifactMeta ==
    /\ Len(calls) < MaxCalls
    /\ \E artifact \in MetaInputs, ok \in BOOLEAN :
         LET r == get_artifact_meta(artifact, store, ok)
         IN  /\ calls' = calls \o r.calls
             /\ err' = r.err
             /\ notices' = r.notices
             /\ result' = r.result
             /\ args' = [artifact |-> artifact, ok |-> ok]
    /\ op' = "get_artifact_meta"
    /\ pre' = Snapshot
    /\ UNCHANGED <<art, leg, calc_hash, default_project, lcalls, uploaded, supplied, listings, store, environ, config>>

NextMeta == GetArtifactMeta

SpecMeta == InitMeta /\ [][NextMeta]_vars

\* The references by what they are: store URIs, paths with the extension
\* .yaml in any case, paths with a YAML extension (.yaml or .yml).
StoreUriRefs == {Ref_store, Ref_store_yaml}
DotYamlRefs == {Ref_yaml, Ref_YAML}
YamlExtensionRefs == {Ref_yaml, Ref_YAML, Ref_yml}

\* What get_artifact_meta did, given the paths that count as YAML paths.
MetaDispatch(yaml_refs) ==
    op = "get_artifact_meta" =>
        LET url == args.artifact[2]
            extra == IF "metadata" \in DOMAIN result.artifact THEN result.artifact.spec.extra_data
                     ELSE result.artifact.extra_data
        IN  /\ url \in StoreUriRefs =>
                  /\ NewCalls = <<StoreCall("get_store_artifact", url, None)>>
                  /\ err = "none" => result.artifact = store.artifacts[url]
            /\ url \in yaml_refs =>
                  /\ NewCalls = <<StoreCall("get", url, None)>>
                  /\ err = "none" => result.artifact = dict_to_artifact(store.documents[url][2])
            /\ url \notin StoreUriRefs \cup yaml_refs => (err = "ValueError" /\ NewCalls = <<>>)
            /\ err = "none" =>
                  /\ DOMAIN result.extra_dataitems = DOMAIN extra[2]
                  /\ \A k \in DOMAIN extra[2] : result.extra_dataitems[k] = DataItem(extra[2][k], k)

\* C17 as stated: an unwrapped store URI is resolved by the store's artifact
\* lookup alone, a path ending in a YAML extension by fetching and parsing it
\* alone, anything else fails with a value error and no store call; on success
\* the mapping has exactly the keys of the artifact's extra_data, each bound to
\* a data handle for that key's value.
C17_MetaDispatchYamlExtension == MetaDispatch(YamlExtensionRefs)

\* C17, amended: the same with "a YAML extension" read as ".yaml" in any letter
\* case; a path ending in ".yml" is among the inputs that fail with a value error.
C17_MetaDispatchDotYaml == MetaDispatch(DotYamlRefs)

C17_Witness ==
    /\ op = "get_artifact_meta"
    /\ args.artifact = DataItem(Ref_YAML, "")
    /\ err = "none"
    /\ calls = <<StoreCall("get", Ref_YAML, None)>>
    /\ "metadata" \in DOMAIN result.artifact
    /\ result.extra_dataitems = [readme |-> DataItem(S("store://out/model/readme"), "readme"),
                                 weights |-> DataItem(S("store://out/model/weights"), "weights")]

-----------------------------------------------------------------------------
(* before_log: the hook run before an artifact is recorded.  An extra_data *)
(* value that is an object, not a plain value, is <<"object", fields>>.    *)

Obj(fields) == <<"object", fields>>

\* hasattr(item, "target_path"): a flat attribute, or the property of the current schema.
hasattr_target_path(item) ==
    item[1] = "object" /\ ("metadata" \in DOMAIN item[2] \/ "target_path" \in DOMAIN item[2])

\* item.target_path
getattr_target_path(item) ==
    IF "metadata" \in DOMAIN item[2] THEN Artifact_get_property(item[2], "target_path").value
    ELSE item[2].target_path

\* LegacyArtifact.before_log that sees only flat target_path attributes.
LegacyArtifact_before_log_FlatOnly(self) ==
    LET d == self.extra_data[2]
    IN  [self |-> [self EXCEPT !.extra_data =
                      Dict([k \in DOMAIN d |->
                               IF d[k][1] = "object" /\ "target_path" \in DOMAIN d[k][2]
                               THEN d[k][2].target_path ELSE d[k]])],
         notices |-> <<>>]

\* LegacyArtifact.before_log; an item of the current schema warns on hasattr and on the read.
LegacyArtifact_before_log(self) ==
    LET d == self.extra_data[2]
        warned == {k \in DOMAIN d : hasattr_target_path(d[k]) /\ "metadata" \in DOMAIN d[k][2]}
    IN  [self |-> [self EXCEPT !.extra_data =
                      Dict([k \in DOMAIN d |->
                               IF hasattr_target_path(d[k]) THEN getattr_target_path(d[k]) ELSE d[k]])],
         notices |-> [i \in 1..(2 * Cardinality(warned)) |-> DeprecationNotice("target_path")]]

\* Artifact.before_log
Artifact_before_log(self) == [self |-> self, notices |-> <<>>]

\* The values an extra_data entry may hold: a path, artifacts of either schema with
\* and without a target path, an artifact whose target_path is itself an artifact,
\* and an object with no target_path.
LogItems ==
    LET flat(t) == Obj(LegacyArtifact(S("part"), None, None, FALSE, None, None, t))
    IN  {S("notes.txt"), flat(S("store://out/part")), flat(None), flat(flat(S("store://out/deep"))),
         Obj(Artifact(S("part"), None, None, FALSE, None, None, S("s3://bucket/model"), None, {}, {})),
         Obj([url |-> S("s3://bucket/extra.txt")])}

\* The extra_data dicts over two keys.
LogExtraData ==
    {EmptyDict} \cup {Dict([weights |-> x]) : x \in LogItems}
                \cup {Dict([weights |-> x, readme |-> y]) : x \in LogItems, y \in LogItems}

InitLog ==
    /\ calc_hash = TRUE
    /\ default_project = S("default")
    /\ \E extra \in LogExtraData :
         /\ art = [Artifact(S("model"), None, None, FALSE, None, None, S("store://out/model"), None, {}, {})
                      EXCEPT !.spec.extra_data = extra]
         /\ leg = [LegacyArtifact(S("model"), None, None, FALSE, None, None, S("store://out/model"))
                      EXCEPT !.extra_data = extra]
    /\ supplied = [hash |-> None, size |-> None]
    /\ calls = <<>>
    /\ lcalls = <<>>
    /\ op = "init"
    /\ args = <<>>
    /\ pre = [art |-> art, leg |-> leg, calls |-> <<>>, lcalls |-> <<>>]
    /\ err = "none"
    /\ result = None
    /\ uploaded = FALSE
    /\ notices = <<>>
    /\ listings = <<>>
    /\ store = [artifacts |-> <<>>, documents |-> <<>>]
    /\ environ = <<>>
    /\ config = [auto_mount_type |-> "none", auto_mount_params |-> <<>>]

\* legacy_artifact.before_log()
LegacyBeforeLog ==
    /\ LET r == LegacyArtifact_before_log(leg)
       IN  /\ leg' = r.self
           /\ notices' = r.notices
    /\ op' = "LegacyArtifact.before_log"
    /\ args' = <<>>
    /\ pre' = Snapshot
    /\ err' = "none"
    /\ result' = None
    /\ UNCHANGED <<art, calc_hash, default_project, calls, lcalls, uploaded, supplied, listings, store, environ, config>>

\* artifact.before_log()
BeforeLog ==
    /\ LET r == Artifact_before_log(art)
       IN  /\ art' = r.self
           /\ notices' = r.notices
    /\ op' = "Artifact.before_log"
    /\ args' = <<>>
    /\ pre' = Snapshot
    /\ err' = "none"
    /\ result' = None
    /\ UNCHANGED <<leg, calc_hash, default_project, calls, lcalls, uploaded, supplied, listings, store, environ, config>>

NextLog == LegacyBeforeLog \/ BeforeLog

SpecLog == InitLog /\ [][NextLog]_vars

\* The artifact-like values among the entries and the target_path each holds.
ArtifactLike(item) == item[1] = "object" /\ item # Obj([url |-> S("s3://bucket/extra.txt")])
TargetPathOf(item) ==
    IF "spec" \in DOMAIN item[2] THEN item[2].spec.target_path ELSE item[2].target_path

\* C18: LegacyArtifact.before_log() replaces every extra_data entry that has a
\* target_path attribute with that target_path, leaves the other entries, the
\* key set and every other field as they were, and run again changes nothing
\* when the target_paths it stored are plain strings; Artifact.before_log()
\* changes nothing.
C18_BeforeLogFlattensExtraData ==
    /\ op = "LegacyArtifact.before_log" =>
          LET old == pre.leg.extra_data[2]
              new == leg.extra_data[2]
          IN  /\ DOMAIN new = DOMAIN old
              /\ \A k \in DOMAIN old :
                    new[k] = (IF ArtifactLike(old[k]) THEN TargetPathOf(old[k]) ELSE old[k])
              /\ leg = [pre.leg EXCEPT !.extra_data = leg.extra_data]
              /\ art = pre.art
              /\ (\A k \in DOMAIN old : ArtifactLike(old[k]) => TargetPathOf(old[k])[1] = "str")
                    => LegacyArtifact_before_log(leg).self = leg
    /\ op = "Artifact.before_log" => (art = pre.art /\ leg = pre.leg /\ calls = pre.calls)

C18_Witness ==
    /\ op = "LegacyArtifact.before_log"
    /\ DOMAIN pre.leg.extra_data[2] = {"weights", "readme"}
    /\ pre.leg.extra_data[2].readme = S("notes.txt")
    /\ pre.leg.extra_data[2].weights[1] = "object"
    /\ leg.extra_data = Dict([weights |-> S("s3://bucket/model"), readme |-> S("notes.txt")])
    /\ LegacyArtifact_before_log(leg).self = leg
    /\ Len(notices) = 2

-----------------------------------------------------------------------------
(* to_dataitem: the data handle of an artifact, asked of the platform      *)
(* through mlrun.get_dataitem.                                             *)

\* Artifact.to_dataitem; ok tells whether mlrun.get_dataitem returns.
Artifact_to_dataitem(self, ok) ==
    LET uri == Artifact_get_store_url(self, TRUE, None)
    IN  IF uri # <<>>
        THEN [calls |-> <<StoreCall("get_dataitem", uri, None)>>,
              err |-> IF ok THEN "none" ELSE "StoreError",
              result |-> IF ok THEN DataItem(uri, "") ELSE None]
        ELSE [calls |-> <<>>, err |-> "none", result |-> None]

\* LegacyArtifact.to_dataitem
LegacyArtifact_to_dataitem(self, ok) ==
    LET uri == LegacyArtifact_get_store_url(self, TRUE, None)
    IN  IF uri # <<>>
        THEN [calls |-> <<StoreCall("get_dataitem", uri, None)>>,
              err |-> IF ok THEN "none" ELSE "StoreError",
              result |-> IF ok THEN DataItem(uri, "") ELSE None]
        ELSE [calls |-> <<>>, err |-> "none", result |-> None]

\* Coordinates with the project and the db_key present or absent.
ItemTuples == {None, S("p1")} \X {None, S("model")} \X {None, S("v1")} \X {None, I(0)}

InitItem ==
    /\ calc_hash = TRUE
    /\ default_project \in {S(""), S("default")}
    /\ \E t \in ItemTuples :
         LET o == [key |-> S("k1"), target_path |-> S("store://out/model"), hash |-> None]
         IN  /\ art = ArtifactAt(t, o)
             /\ leg = LegacyArtifactAt(t, o)
    /\ supplied = [hash |-> None, size |-> None]
    /\ calls = <<>>
    /\ lcalls = <<>>
    /\ op = "init"
    /\ args = <<>>
    /\ pre = [art |-> art, leg |-> leg, calls |-> <<>>, lcalls |-> <<>>]
    /\ err = "none"
    /\ result = None
    /\ uploaded = FALSE
    /\ notices = <<>>
    /\ listings = <<>>
    /\ store = [artifacts |-> <<>>, documents |-> <<>>]
    /\ environ = <<>>
    /\ config = [auto_mount_type |-> "none", auto_mount_params |-> <<>>]

\* artifact.to_dataitem()
ToDataitem ==
    /\ Len(calls) < MaxCalls
    /\ \E ok \in BOOLEAN :
         LET r == Artifact_to_dataitem(art, ok)
         IN  /\ calls' = calls \o r.calls
             /\ err' = r.err
             /\ result' = r.result
             /\ args' = [ok |-> ok]
    /\ op' = "Artifact.to_dataitem"
    /\ pre' = Snapshot
    /\ UNCHANGED <<art, leg, calc_hash, default_project, lcalls, uploaded, supplied, notices, listings, store, environ, config>>

\* legacy_artifact.to_dataitem()
LegacyToDataitem ==
    /\ Len(lcalls) < MaxCalls
    /\ \E ok \in BOOLEAN :
         LET r == LegacyArtifact_to_dataitem(leg, ok)
         IN  /\ lcalls' = lcalls \o r.calls
             /\ err' = r.err
             /\ result' = r.result
             /\ args' = [ok |-> ok]
    /\ op' = "LegacyArtifact.to_dataitem"
    /\ pre' = Snapshot
    /\ UNCHANGED <<art, leg, calc_hash, default_project, calls, uploaded, supplied, notices, listings, store, environ, config>>

NextItem == ToDataitem \/ LegacyToDataitem

SpecItem == InitItem /\ [][NextItem]_vars

\* No store URL can be constructed: the artifact has neither a project nor a db_key.
NoStoreUrl(a) == ~Truthy(a.metadata.project) /\ ~Truthy(a.spec.db_key)

\* C19: to_dataitem() returns none, without asking the platform for a data
\* handle, when no store URL can be constructed (project and db_key both
\* absent); otherwise it returns the handle the platform resolves from
\* get_store_url().
C19_NoDataitemWithoutStoreUrl ==
    (op = "Artifact.to_dataitem") =>
        IF NoStoreUrl(pre.art)
        THEN result = None /\ NewCalls = <<>>
        ELSE /\ NewCalls = <<StoreCall("get_dataitem", Artifact_get_store_url(pre.art, TRUE, None), None)>>
             /\ err = "none" => result = DataItem(Artifact_get_store_url(pre.art, TRUE, None), "")

-----------------------------------------------------------------------------
(* platforms/other.py: the volume auto_mount chooses.  The value of        *)
(* MLRUN_PVC_MOUNT is the sequence of its pieces, ":" being a piece of its *)
(* own, so that split(":") is computed.                                    *)

RECURSIVE split(_, _)
\* str.split(sep)
split(pieces, sep) ==
    IF pieces = <<>> THEN <<"">>
    ELSE LET front == split(SubSeq(pieces, 1, Len(pieces) - 1), sep)
             last == pieces[Len(pieces)]
         IN  IF last = sep THEN Append(front, "")
             ELSE [front EXCEPT ![Len(front)] = @ \o last]

\* The modifier mount_pvc returns, by what it mounts.
PvcMount(pvc_name, volume_name, volume_mount_path) ==
    [kind |-> "pvc", claim_name |-> pvc_name, volume_name |-> volume_name, mount_path |-> volume_mount_path]

\* The modifier iguazio.mount_v3io(name=...) returns.
mount_v3io(name) == [kind |-> "v3io", volume_name |-> name]

\* mount_pvc(pvc_name, volume_name, volume_mount_path)
mount_pvc(pvc_name, volume_name, volume_mount_path) ==
    LET set == "MLRUN_PVC_MOUNT" \in DOMAIN environ
        items == IF set THEN split(environ["MLRUN_PVC_MOUNT"], ":") ELSE <<>>
        name == IF set /\ Len(items) = 2 THEN S(items[1]) ELSE pvc_name
        path == IF set /\ Len(items) = 2 THEN S(items[2]) ELSE volume_mount_path
    IN  IF set /\ Len(items) # 2 THEN [err |-> "MLRunInvalidArgumentError", result |-> None]
        ELSE IF ~Truthy(name) THEN [err |-> "MLRunInvalidArgumentError", result |-> None]
        ELSE [err |-> "none", result |-> PvcMount(name, volume_name, path)]

\* mount_pvc(**config.get_storage_auto_mount_params()): absent parameters take the defaults.
mount_pvc_configured(params) ==
    mount_pvc(IF "pvc_name" \in DOMAIN params THEN params.pvc_name ELSE None,
              IF "volume_name" \in DOMAIN params THEN params.volume_name ELSE S("pipeline"),
              IF "volume_mount_path" \in DOMAIN params THEN params.volume_mount_path ELSE S("/mnt/pipeline"))

\* auto_mount(pvc_name, volume_mount_path, volume_name)
auto_mount(pvc_name, volume_mount_path, volume_name) ==
    IF Truthy(pvc_name) /\ Truthy(volume_mount_path)
    THEN mount_pvc(pvc_name, Or(volume_name, S("shared-persistency")), volume_mount_path)
    ELSE IF "MLRUN_PVC_MOUNT" \in DOMAIN environ
    THEN mount_pvc(None, Or(volume_name, S("shared-persistency")), S("/mnt/pipeline"))
    ELSE IF config.auto_mount_type = "pvc"
    THEN mount_pvc_configured(config.auto_mount_params)
    ELSE IF "V3IO_ACCESS_KEY" \in DOMAIN environ
    THEN [err |-> "none", result |-> mount_v3io(Or(volume_name, S("v3io")))]
    ELSE [err |-> "ValueError", result |-> None]

\* The values MLRUN_PVC_MOUNT may hold: well formed, one piece, three pieces, no claim name.
PvcMountValues ==
    {<<"env-claim", ":", "/mnt/env">>, <<"env-claim">>, <<"a", ":", "b", ":", "c">>, <<":", "/mnt/env">>}

\* The environments: each of the three variables set or not.
Environments ==
    {[n \in names |-> IF n = "MLRUN_PVC_MOUNT" THEN m ELSE "secret"] :
        names \in SUBSET {"MLRUN_PVC_MOUNT", "V3IO_ACCESS_KEY", "V3IO_USERNAME"}, m \in PvcMountValues}

\* The auto-mount settings of the configuration.
AutoMountConfigs ==
    [auto_mount_type : {"none", "pvc"},
     auto_mount_params : {<<>>, [pvc_name |-> S("cfg-claim"), volume_mount_path |-> S("/mnt/cfg")]}]

InitMount ==
    /\ calc_hash = TRUE
    /\ default_project = S("default")
    /\ art = Artifact(None, None, None, FALSE, None, None, None, None, {}, {})
    /\ leg = LegacyArtifact(None, None, None, FALSE, None, None, None)
    /\ supplied = [hash |-> None, size |-> None]
    /\ calls = <<>>
    /\ lcalls = <<>>
    /\ op = "init"
    /\ args = <<>>
    /\ pre = [art |-> art, leg |-> leg, calls |-> <<>>, lcalls |-> <<>>]
    /\ err = "none"
    /\ result = None
    /\ uploaded = FALSE
    /\ notices = <<>>
    /\ listings = <<>>
    /\ store = [artifacts |-> <<>>, documents |-> <<>>]
    /\ environ \in Environments
    /\ config \in AutoMountConfigs

\* auto_mount(pvc_name, volume_mount_path, volume_name)
AutoMount ==
    /\ \E pvc_name \in {S(""), S("my-claim")}, volume_mount_path \in {S(""), S("/mnt/mine")},
          volume_name \in {None, S("vol")} :
         LET r == auto_mount(pvc_name, volume_mount_path, volume_name)
         IN  /\ result' = r.result
             /\ err' = r.err
             /\ args' = [pvc_name |-> pvc_name, volume_mount_path |-> volume_mount_path,
                         volume_name |-> volume_name]
    /\ op' = "auto_mount"
    /\ pre' = Snapshot
    /\ UNCHANGED <<art, leg, calc_hash, default_project, calls, lcalls, uploaded, supplied, notices, listings, store, environ, config>>

NextMount == AutoMount

SpecMount == InitMount /\ [][NextMount]_vars

\* C20: auto_mount selects, in this order: a PVC with the passed pvc_name and
\* volume_mount_path when both are passed, whatever the environment holds; else
\* the PVC that a well-formed MLRUN_PVC_MOUNT=<pvc-name>:<mount-path> names when
\* that variable is set; else a PVC when the configured auto-mount type is
\* "pvc"; else a v3io mount when V3IO_ACCESS_KEY and V3IO_USERNAME are both set;
\* otherwise it fails with an error.
C20_AutoMountSelectionOrder ==
    op = "auto_mount" =>
        LET shared == Or(args.volume_name, S("shared-persistency"))
            pieces == environ["MLRUN_PVC_MOUNT"]
            params == config.auto_mount_params
        IN  IF Truthy(args.pvc_name) /\ Truthy(args.volume_mount_path)
            THEN err = "none" /\ result = PvcMount(args.pvc_name, shared, args.volume_mount_path)
            ELSE IF "MLRUN_PVC_MOUNT" \in DOMAIN environ
            THEN IF pieces = <<"env-claim", ":", "/mnt/env">>
                 THEN err = "none" /\ result = PvcMount(S("env-claim"), shared, S("/mnt/env"))
                 ELSE err # "none"
            ELSE IF config.auto_mount_type = "pvc"
            THEN IF "pvc_name" \in DOMAIN params
                 THEN err = "none" /\ result = PvcMount(params.pvc_name, S("pipeline"), params.volume_mount_path)
                 ELSE err # "none"
            ELSE IF {"V3IO_ACCESS_KEY", "V3IO_USERNAME"} \subseteq DOMAIN environ
            THEN err = "none" /\ result = mount_v3io(Or(args.volume_name, S("v3io")))
            ELSE err # "none"

-----------------------------------------------------------------------------
(* get_store_url without the tag, and with a project argument.             *)

\* C21: get_store_url(with_tag=False) leaves the tag out: whatever
\* metadata.tree is the result is the same, and it is what get_store_url()
\* returns for the same artifact with tree absent; a non-empty project argument
\* stands in the URI where metadata.project would, and the artifact is left as
\* it was.  The same holds of LegacyArtifact.get_store_url.
C21_StoreUrlWithoutTagAndProjectOverride ==
    /\ op = "Artifact.get_store_url" =>
          /\ art = pre.art
          /\ ~args.with_tag =>
                /\ \A i \in 1..Len(result) : result[i] # ":"
                /\ result = Artifact_get_store_url([art EXCEPT !.metadata.tree = None], TRUE, args.project)
                /\ \A tree \in Trees :
                      Artifact_get_store_url([art EXCEPT !.metadata.tree = tree], FALSE, args.project) = result
          /\ Truthy(args.project) =>
                result = Artifact_get_store_url([art EXCEPT !.metadata.project = args.project],
                                                args.with_tag, None)
    /\ op = "LegacyArtifact.get_store_url" =>
          /\ leg = pre.leg
          /\ ~args.with_tag =>
                /\ \A i \in 1..Len(result) : result[i] # ":"
                /\ result = LegacyArtifact_get_store_url([leg EXCEPT !.tree = None], TRUE, args.project)
                /\ \A tree \in Trees :
                      LegacyArtifact_get_store_url([leg EXCEPT !.tree = tree], FALSE, args.project) = result
          /\ Truthy(args.project) =>
                result = LegacyArtifact_get_store_url([leg EXCEPT !.project = args.project],
                                                      args.with_tag, None)

C21_Witness ==
    /\ op = "Artifact.get_store_url"
    /\ ~args.with_tag
    /\ args.project = S("p2")
    /\ TupleOf(art) = <<S("p1"), S("model"), S("v1"), I(0)>>
    /\ result = <<"store://", "artifacts", "/", "p2", "/", "model", "#", "0">>

-----------------------------------------------------------------------------
(* Link artifacts: an artifact that holds the coordinates of another.      *)

\* LinkArtifactSpec.__init__
LinkArtifactSpec(src_path, target_path, link_iteration, link_key, link_tree) ==
    ArtifactSpec(src_path, target_path, None, FALSE, None, None, None, None, None)
        @@ [link_iteration |-> link_iteration, link_key |-> link_key, link_tree |-> link_tree]

\* LinkArtifact.__init__: Artifact.__init__ on the spec coerced to a
\* LinkArtifactSpec, then the three link arguments assigned.
LinkArtifact(key, target_path, link_iteration, link_key, link_tree, project, metadata, spec) ==
    LET given == _verify_dict(spec, LinkArtifactSpec(None, None, None, None, None))
        base == Artifact(key, None, None, FALSE, None, None, target_path, project, metadata, {given})
    IN  [base EXCEPT !.kind = S("link"),
                     !.spec.link_iteration = link_iteration,
                     !.spec.link_key = link_key,
                     !.spec.link_tree = link_tree]

\* The arguments of a LinkArtifact(...) call; spec is none or a LinkArtifactSpec
\* with or without coordinates.
LinkArgs ==
    [key : {None, S("lnk")}, target_path : {S(""), S("store://out/model")},
     link_iteration : {None, I(0), I(2)}, link_key : {None, S("model")}, link_tree : {None, S("v1")},
     project : {None, S("p1")},
     spec : {{}, {LinkArtifactSpec(None, None, None, None, None)},
             {LinkArtifactSpec(None, S("store://out/link"), I(1), S("other"), S("v0"))}}]

InitLink ==
    /\ calc_hash = TRUE
    /\ default_project = S("default")
    /\ art = Artifact(None, None, None, FALSE, None, None, None, None, {}, {})
    /\ leg = LegacyArtifact(None, None, None, FALSE, None, None, None)
    /\ supplied = [hash |-> None, size |-> None]
    /\ calls = <<>>
    /\ lcalls = <<>>
    /\ op = "init"
    /\ args = <<>>
    /\ pre = [art |-> art, leg |-> leg, calls |-> <<>>, lcalls |-> <<>>]
    /\ err = "none"
    /\ result = None
    /\ uploaded = FALSE
    /\ notices = <<>>
    /\ listings = <<>>
    /\ store = [artifacts |-> <<>>, documents |-> <<>>]
    /\ environ = <<>>
    /\ config = [auto_mount_type |-> "none", auto_mount_params |-> <<>>]

\* art = LinkArtifact(key, target_path, link_iteration, link_key, link_tree, project, spec=spec)
NewLinkArtifact ==
    /\ op = "init"
    /\ \E a \in LinkArgs :
         /\ art' = LinkArtifact(a.key, a.target_path, a.link_iteration, a.link_key, a.link_tree,
                                a.project, {}, a.spec)
         /\ args' = a
    /\ op' = "LinkArtifact"
    /\ pre' = Snapshot
    /\ err' = "none"
    /\ result' = None
    /\ UNCHANGED <<leg, calc_hash, default_project, calls, lcalls, uploaded, supplied, notices, listings, store, environ, config>>

NextLink == NewLinkArtifact

SpecLink == InitLink /\ [][NextLink]_vars

\* C22: a LinkArtifact constructed from a supplied LinkArtifactSpec, with the
\* link_iteration, link_key and link_tree arguments omitted, has the link
\* coordinates that spec carried.
C22_LinkSpecCoordinatesKept ==
    (/\ op = "LinkArtifact"
     /\ args.spec # {}
     /\ args.link_iteration = None /\ args.link_key = None /\ args.link_tree = None) =>
        LET given == CHOOSE x \in args.spec : TRUE
        IN  /\ art.spec.link_iteration = given.link_iteration
            /\ art.spec.link_key = given.link_key
            /\ art.spec.link_tree = given.link_tree

-----------------------------------------------------------------------------
(* Empty bodies: an artifact constructed with an empty body, or from a     *)
(* spec that holds one, and then uploaded.                                 *)

EmptyBodies == {Bytes(<<>>), Text(<<>>)}

\* Constructor calls with a body that is absent, empty or not, over no spec or a
\* spec with a source path and a body of its own.
EmptyBodyArgs ==
    {[NoArgs EXCEPT !.body = b, !.target_path = S("store://out/model"), !.spec = sp] :
        b \in {None, Bytes(<<97>>)} \cup EmptyBodies,
        sp \in {{}} \cup {{ArtifactSpec(src, None, None, FALSE, None, None, None, None, sb)} :
                            src \in {None, S("/data/model.bin"), S("/data/missing")},
                            sb \in {None, Bytes(<<98>>)} \cup EmptyBodies}}

InitEmpty ==
    /\ calc_hash \in BOOLEAN
    /\ default_project = S("default")
    /\ art = Construct(NoArgs)
    /\ leg = LegacyArtifact(None, None, None, FALSE, None, None, None)
    /\ supplied = [hash |-> None, size |-> None]
    /\ calls = <<>>
    /\ lcalls = <<>>
    /\ op = "init"
    /\ args = NoArgs
    /\ pre = [art |-> art, leg |-> leg, calls |-> <<>>, lcalls |-> <<>>]
    /\ err = "none"
    /\ result = None
    /\ uploaded = FALSE
    /\ notices = <<>>
    /\ listings = <<>>
    /\ store = [artifacts |-> <<>>, documents |-> <<>>]
    /\ environ = <<>>
    /\ config = [auto_mount_type |-> "none", auto_mount_params |-> <<>>]

\* art = Artifact(body=..., target_path=..., spec=...)
NewArtifactWithBody ==
    /\ op = "init"
    /\ \E a \in EmptyBodyArgs :
         /\ art' = Construct(a)
         /\ args' = a
    /\ op' = "Artifact"
    /\ pre' = Snapshot
    /\ err' = "none"
    /\ result' = None
    /\ UNCHANGED <<leg, calc_hash, default_project, calls, lcalls, uploaded, supplied, notices, listings, store, environ, config>>

NextEmpty == NewArtifactWithBody \/ Upload

SpecEmpty == InitEmpty /\ [][NextEmpty]_vars

\* C23: an empty body is no body.  Artifact(body=<empty>) stores nothing on the
\* spec (its body is what the supplied spec held, none without one), and
\* upload() of an artifact whose body is empty takes the source-file branch:
\* one store upload of src_path when that is a regular file, nothing otherwise,
\* and never a store put.
C23_EmptyBodyIsNoBody ==
    /\ (op = "Artifact" /\ args.body \in EmptyBodies) =>
          /\ art.spec._body = GivenSpec._body
          /\ args.spec = {} => art.spec._body = None
    /\ (op = "Artifact.upload" /\ pre.art.spec._body \in EmptyBodies) =>
          /\ \A i \in 1..Len(NewCalls) : NewCalls[i].method # "put"
          /\ HasSourceFile(pre.art) =>
                NewCalls = <<StoreCall("upload", pre.art.spec.target_path, pre.art.spec.src_path)>>
          /\ ~HasSourceFile(pre.art) => (NewCalls = <<>> /\ art = pre.art)

C23_Witness ==
    /\ op = "Artifact.upload"
    /\ pre.art.spec._body = Text(<<>>)
    /\ pre.calls = <<>>
    /\ calls = <<StoreCall("upload", S("store://out/model"), S("/data/model.bin"))>>
    /\ art.spec.size = I(3)

====
